---- MODULE Spec2Model ----
(***************************************************************************)
(* Verification model of the project archive processing pipeline of        *)
(* circuit-scope (backend/app/services/projects.py, previews.py).          *)
(*                                                                         *)
(*  Spec         the processing state machine: create_project,             *)
(*               delete_project, run_project_processing_task and the       *)
(*               await points of process_project_archive.                  *)
(*  SpecExtract  _safe_extract applied to the members of an archive.       *)
(*  SpecAsset    validate_preview_asset_path applied to a client path.     *)
(*  SpecEndpoint get_project_preview_asset answering one asset request.    *)
(*  SpecGrid     _grid_dimensions applied to a sheet count.                *)
(*  SpecSheets   _render_schematic_bundle and _compose_svg_grid applied to *)
(*               the sheets an export produced.                            *)
(*  SpecRender   process_project_archive from the extraction through the   *)
(*               render stages to the upload and the saved index.          *)
(*  SpecNames    _unique_filename called the way the schematic stage       *)
(*               calls it.                                                 *)
(*  SpecLoop     the event loop running the task around the invocations    *)
(*               of the external tool, and the requests arriving.          *)
(*  SpecPair     the runs of different projects on one host and one        *)
(*               storage.                                                  *)
(*  SpecMeta     _read_project_metadata applied to a project file at its   *)
(*               call site.                                                *)
(***************************************************************************)
EXTENDS Integers, Sequences, FiniteSets, TLC

(***************************************************************************)
(* Bounds of the model.                                                    *)
(***************************************************************************)
NumProjects == 1
NumRuns == 2
MaxAssets == 1
MaxMembers == 2
MaxDepth == 2
MaxAssetDepth == 2

Projects == 1..NumProjects

\* the projects of the concurrent runs
Runs == 1..NumRuns

(***************************************************************************)
(* Processing status values (projects.py:63,68,78,135; migration 26,33).   *)
(***************************************************************************)
QUEUED == "queued"
PROCESSING == "processing"
COMPLETED == "completed"
FAILED == "failed"

NoError == "None"
Absent == [exists |-> FALSE, status |-> "", error |-> NoError]

\* server_default of the processing_status column for new rows
ServerDefault == QUEUED
\* server_default applied to the rows that existed when the column was added
MigratedDefault == COMPLETED


\* the files a run can leave under previews_root: asset 1 .. asset MaxAssets
AssetFiles == 1..MaxAssets

\* str(exc) of the exceptions that can reach the handler of the task
\* ExcStorage: an exception of the storage backend that is not a
\* StorageError; ExcLocal: an exception of zipfile or of the local
\* filesystem that is not caught inside process_project_archive;
\* ExcDb: an exception of the database session.
ExcStorage == "storage backend error"
ExcLocal == "archive or filesystem error"
ExcDb == "database error"
NoExc == "none"

VARIABLES
    db,          \* db[p]: the committed row of project p
    hist,        \* hist[p]: the committed processing_status values, in order
    pc,          \* pc[p]: position of run_project_processing_task for p
    exc,         \* exc[p]: str(exc) of the exception being handled
    raised,      \* raised[p]: str(exc) raised by process_project_archive
    entered,     \* entered[p]: the commit of "processing" succeeded
    aborted,     \* aborted[p]: download or extraction failed in this run
    tmpzip,      \* tmpzip[p]: local_zip_path exists
    scratch,     \* scratch[p]: the TemporaryDirectory of the run exists
    pending,     \* pending[p]: files under previews_root not yet uploaded
    store,       \* store[p]: paths stored under projects/p/previews
    unlink_failed, \* unlink_failed[p]: local_zip_path.unlink() raised OSError
    swallowed,   \* swallowed[p]: the storage calls whose StorageError was logged
    xn, xi, xcur, xout, xtree, xpc, xskips,
    apath, apid, ares, astorage,
    epath, eexists, estored, eresp,
    rpc, rexe, rsources, rboard, index, rlayer, rentries, rlast, rstage,
    sfiles, cout, sbundle,
    gcount, gres,
    uused, ureturned,
    lpos, lthread, linv, larrived, lserved,
    qpc, qarchive, qdir, qexc, ptable, ptmp, pfiles, pstorage,
    mfile, mpc, mres, mstatus

mainVars == <<db, hist, pc, exc, raised, entered, aborted, tmpzip, scratch,
              pending, store, unlink_failed, swallowed>>
extractVars == <<xn, xi, xcur, xout, xtree, xpc, xskips>>
assetVars == <<apath, apid, ares, astorage>>
endpointVars == <<epath, eexists, estored, eresp>>
renderVars == <<rpc, rexe, rsources, rboard, index, rlayer, rentries, rlast,
                rstage>>
sheetVars == <<sfiles, cout, sbundle>>
gridVars == <<gcount, gres>>
nameVars == <<uused, ureturned>>
loopVars == <<lpos, lthread, linv, larrived, lserved>>
pairVars == <<qpc, qarchive, qdir, qexc, ptable, ptmp, pfiles, pstorage>>
metaVars == <<mfile, mpc, mres, mstatus>>
finalVars == <<nameVars, loopVars, pairVars, metaVars>>
laterVars == <<endpointVars, renderVars, sheetVars, gridVars, finalVars>>
vars == <<mainVars, extractVars, assetVars, laterVars>>

(***************************************************************************)
(* Spec: the processing state machine.                                     *)
(***************************************************************************)

\* create_project with the image-only shortcut applied to every source type.
create_project_AlwaysCompleted(source_type) ==
    [exists |-> TRUE, status |-> COMPLETED, error |-> NoError]

\* projects.py:103-136: the row create_project inserts.  processing_status
\* is assigned for image-only projects only; a KiCad row gets the column's
\* server default.
create_project(source_type) ==
    [exists |-> TRUE,
     status |-> IF source_type = "images" THEN COMPLETED ELSE ServerDefault,
     error  |-> NoError]

SourceTypes == {"kicad", "images"}

\* routes/projects.py:64-115: the row is created and, for a KiCad project
\* with an uploaded archive, the background task is scheduled once.
create_project_endpoint(p, source_type, upload) ==
    /\ pc[p] = "new"
    /\ db' = [db EXCEPT ![p] = create_project(source_type)]
    /\ hist' = [hist EXCEPT ![p] = <<create_project(source_type).status>>]
    /\ IF source_type = "kicad" /\ upload
       THEN /\ pc' = [pc EXCEPT ![p] = "scheduled"]
            /\ tmpzip' = [tmpzip EXCEPT ![p] = TRUE]
       ELSE /\ pc' = [pc EXCEPT ![p] = "none"]
            /\ UNCHANGED tmpzip
    /\ UNCHANGED <<exc, raised, entered, aborted, scratch, pending, store, unlink_failed>>
    /\ UNCHANGED <<swallowed, extractVars, assetVars, laterVars>>

\* migration 4f1e2d3c4b5a, upgrade(): a row that existed before the
\* processing_status column was added receives the first server default;
\* no background task is ever scheduled for it.
upgrade(p) ==
    /\ pc[p] = "new"
    /\ db' = [db EXCEPT ![p] =
                 [exists |-> TRUE, status |-> MigratedDefault, error |-> NoError]]
    /\ hist' = [hist EXCEPT ![p] = <<MigratedDefault>>]
    /\ pc' = [pc EXCEPT ![p] = "none"]
    /\ UNCHANGED <<exc, raised, entered, aborted, tmpzip, scratch, pending,
                   store, unlink_failed>>
    /\ UNCHANGED <<swallowed, extractVars, assetVars, laterVars>>

\* projects.py:282-299: the row is deleted; it may happen while the
\* background task of the project is running.
delete_project(p) ==
    /\ db[p].exists
    /\ db' = [db EXCEPT ![p] = Absent]
    /\ UNCHANGED <<hist, pc, exc, raised, entered, aborted, tmpzip, scratch,
                   pending, store, unlink_failed>>
    /\ UNCHANGED <<swallowed, extractVars, assetVars, laterVars>>

\* session.commit() of a changed processing_status / processing_error:
\* the committed row and the observed status sequence.
Commit(p, st, err) ==
    /\ db' = [db EXCEPT ![p] = [exists |-> TRUE, status |-> st, error |-> err]]
    /\ hist' = [hist EXCEPT ![p] = Append(@, st)]

\* task_begin without the early return: the status is written to a row
\* that was not found.
task_begin_NoEarlyReturn(p, dbok) ==
    /\ pc[p] = "scheduled"
    /\ IF ~dbok
       THEN /\ exc' = [exc EXCEPT ![p] = ExcDb]
            /\ pc' = [pc EXCEPT ![p] = "except"]
            /\ UNCHANGED <<db, hist, entered>>
       ELSE /\ Commit(p, PROCESSING, db[p].error)
            /\ entered' = [entered EXCEPT ![p] = TRUE]
            /\ pc' = [pc EXCEPT ![p] = "download"]
            /\ UNCHANGED exc
    /\ UNCHANGED <<raised, aborted, tmpzip, scratch, pending, store, unlink_failed>>
    /\ UNCHANGED <<swallowed, extractVars, assetVars, laterVars>>

\* projects.py:56-64: session.get, the early return when the project is
\* missing, and the commit of "processing".  dbok = FALSE: session.get or
\* session.commit raised.
task_begin(p, dbok) ==
    /\ pc[p] = "scheduled"
    /\ IF ~dbok
       THEN /\ exc' = [exc EXCEPT ![p] = ExcDb]
            /\ pc' = [pc EXCEPT ![p] = "except"]
            /\ UNCHANGED <<db, hist, entered>>
       ELSE IF ~db[p].exists
       THEN /\ pc' = [pc EXCEPT ![p] = "finally"]
            /\ UNCHANGED <<db, hist, exc, entered>>
       ELSE /\ Commit(p, PROCESSING, db[p].error)
            /\ entered' = [entered EXCEPT ![p] = TRUE]
            /\ pc' = [pc EXCEPT ![p] = "download"]
            /\ UNCHANGED exc
    /\ UNCHANGED <<raised, aborted, tmpzip, scratch, pending, store, unlink_failed>>
    /\ UNCHANGED <<swallowed, extractVars, assetVars, laterVars>>

\* an exception leaves process_project_archive: the TemporaryDirectory is
\* removed on the way out and the handler of the task is entered.
Raise(p, msg) ==
    /\ raised' = [raised EXCEPT ![p] = msg]
    /\ exc' = [exc EXCEPT ![p] = msg]
    /\ scratch' = [scratch EXCEPT ![p] = FALSE]
    /\ pc' = [pc EXCEPT ![p] = "except"]

\* process_project_archive returns normally (possibly early).
Return(p) ==
    /\ scratch' = [scratch EXCEPT ![p] = FALSE]
    /\ pc' = [pc EXCEPT ![p] = "complete"]
    /\ UNCHANGED <<raised, exc>>

DownloadOutcomes == {"ok", "StorageError", "raise"}

\* previews.py:179-197: the scratch directory is created and the archive
\* is downloaded; a StorageError is logged and the function returns.
process_download(p, outcome) ==
    /\ pc[p] = "download"
    /\ CASE outcome = "ok" ->
              /\ scratch' = [scratch EXCEPT ![p] = TRUE]
              /\ pc' = [pc EXCEPT ![p] = "render"]
              /\ UNCHANGED <<raised, exc, aborted, swallowed>>
         [] outcome = "StorageError" ->
              /\ Return(p)
              /\ aborted' = [aborted EXCEPT ![p] = TRUE]
              /\ swallowed' = [swallowed EXCEPT ![p] = @ \cup {"download"}]
         [] outcome = "raise" ->
              /\ Raise(p, ExcStorage)
              /\ UNCHANGED <<aborted, swallowed>>
    /\ UNCHANGED <<db, hist, entered, tmpzip, pending, store, unlink_failed>>
    /\ UNCHANGED <<extractVars, assetVars, laterVars>>

ExtractOutcomes == {"ok", "BadZipFile", "OSError", "raise", "mkdir"}

\* previews.py:199-260: extraction, output directories and the render
\* stages run without an await.  BadZipFile / OSError of the extraction are
\* logged and the function returns; any other exception of the extraction
\* and an OSError of the output mkdir leave the function.  files: what the
\* render stages left under previews_root (their own failures are caught).
process_extract_render(p, outcome, files) ==
    /\ pc[p] = "render"
    /\ CASE outcome = "ok" ->
              /\ pending' = [pending EXCEPT ![p] = files]
              /\ pc' = [pc EXCEPT ![p] =
                          IF files = {} THEN "write_index" ELSE "upload"]
              /\ UNCHANGED <<raised, exc, aborted, scratch>>
         [] outcome \in {"BadZipFile", "OSError"} ->
              /\ Return(p)
              /\ aborted' = [aborted EXCEPT ![p] = TRUE]
              /\ UNCHANGED pending
         [] outcome = "raise" ->
              /\ Raise(p, ExcLocal)
              /\ UNCHANGED <<aborted, pending>>
         [] outcome = "mkdir" ->
              /\ Raise(p, ExcLocal)
              /\ UNCHANGED <<aborted, pending>>
    /\ UNCHANGED <<db, hist, entered, tmpzip, store, unlink_failed>>
    /\ UNCHANGED <<swallowed, extractVars, assetVars, laterVars>>

UploadOutcomes == {"ok", "StorageError", "raise"}

\* previews.py:262-275: one storage.upload of the walk over previews_root;
\* a StorageError is logged and the walk goes on.
process_upload(p, f, outcome) ==
    /\ pc[p] = "upload"
    /\ f \in pending[p]
    /\ CASE outcome = "ok" ->
              /\ store' = [store EXCEPT ![p].files = @ \cup {f}]
              /\ pending' = [pending EXCEPT ![p] = @ \ {f}]
              /\ pc' = [pc EXCEPT ![p] =
                          IF pending[p] = {f} THEN "write_index" ELSE "upload"]
              /\ UNCHANGED <<raised, exc, scratch, swallowed>>
         [] outcome = "StorageError" ->
              /\ pending' = [pending EXCEPT ![p] = @ \ {f}]
              /\ pc' = [pc EXCEPT ![p] =
                          IF pending[p] = {f} THEN "write_index" ELSE "upload"]
              /\ swallowed' = [swallowed EXCEPT ![p] = @ \cup {"upload"}]
              /\ UNCHANGED <<raised, exc, scratch, store>>
         [] outcome = "raise" ->
              /\ Raise(p, ExcStorage)
              /\ pending' = [pending EXCEPT ![p] = {}]
              /\ UNCHANGED <<store, swallowed>>
    /\ UNCHANGED <<db, hist, entered, aborted, tmpzip, unlink_failed>>
    /\ UNCHANGED <<extractVars, assetVars, laterVars>>

\* previews.py:562-572 and 277-278: the manifest is saved; a StorageError is
\* logged and swallowed, and process_project_archive returns.
write_index(p, outcome) ==
    /\ pc[p] = "write_index"
    /\ CASE outcome = "ok" ->
              /\ store' = [store EXCEPT ![p].index = TRUE]
              /\ Return(p)
              /\ UNCHANGED swallowed
         [] outcome = "StorageError" ->
              /\ Return(p)
              /\ swallowed' = [swallowed EXCEPT ![p] = @ \cup {"index"}]
              /\ UNCHANGED store
         [] outcome = "raise" ->
              /\ Raise(p, ExcStorage)
              /\ UNCHANGED <<store, swallowed>>
    /\ UNCHANGED <<db, hist, entered, aborted, tmpzip, pending, unlink_failed>>
    /\ UNCHANGED <<extractVars, assetVars, laterVars>>

\* projects.py:68-70: "completed" is committed after process_project_archive
\* returned.  The commit raises when dbok = FALSE or the row is gone.
task_complete(p, dbok) ==
    /\ pc[p] = "complete"
    /\ IF dbok /\ db[p].exists
       THEN /\ Commit(p, COMPLETED, NoError)
            /\ pc' = [pc EXCEPT ![p] = "finally"]
            /\ UNCHANGED exc
       ELSE /\ exc' = [exc EXCEPT ![p] = ExcDb]
            /\ pc' = [pc EXCEPT ![p] = "except"]
            /\ UNCHANGED <<db, hist>>
    /\ UNCHANGED <<raised, entered, aborted, tmpzip, scratch, pending, store, unlink_failed>>
    /\ UNCHANGED <<swallowed, extractVars, assetVars, laterVars>>

\* task_except recording "failed" without the message of the exception.
task_except_NoMessage(p, dbok) ==
    /\ pc[p] = "except"
    /\ IF dbok /\ db[p].exists
       THEN Commit(p, FAILED, db[p].error)
       ELSE UNCHANGED <<db, hist>>
    /\ pc' = [pc EXCEPT ![p] = "finally"]
    /\ UNCHANGED <<exc, raised, entered, aborted, tmpzip, scratch, pending,
                   store, unlink_failed>>
    /\ UNCHANGED <<swallowed, extractVars, assetVars, laterVars>>

\* projects.py:72-84: rollback, reload, record "failed" with str(exc); an
\* exception of rollback, get or commit (dbok = FALSE) is only logged.
task_except(p, dbok) ==
    /\ pc[p] = "except"
    /\ IF dbok /\ db[p].exists
       THEN Commit(p, FAILED, exc[p])
       ELSE UNCHANGED <<db, hist>>
    /\ pc' = [pc EXCEPT ![p] = "finally"]
    /\ UNCHANGED <<exc, raised, entered, aborted, tmpzip, scratch, pending,
                   store, unlink_failed>>
    /\ UNCHANGED <<swallowed, extractVars, assetVars, laterVars>>

\* task_finally with the unlink done only after a run without exception.
task_finally_OnSuccessOnly(p, unlink_ok) ==
    /\ pc[p] = "finally"
    /\ tmpzip' = [tmpzip EXCEPT ![p] =
                     IF @ /\ unlink_ok /\ exc[p] = NoExc THEN FALSE ELSE @]
    /\ unlink_failed' = [unlink_failed EXCEPT ![p] = tmpzip[p] /\ ~unlink_ok]
    /\ pc' = [pc EXCEPT ![p] = "done"]
    /\ UNCHANGED <<db, hist, exc, raised, entered, aborted, scratch, pending,
                   store>>
    /\ UNCHANGED <<swallowed, extractVars, assetVars, laterVars>>

\* projects.py:85-91: the temporary ZIP is unlinked if it exists; an
\* OSError of unlink (unlink_ok = FALSE) is logged.
task_finally(p, unlink_ok) ==
    /\ pc[p] = "finally"
    /\ tmpzip' = [tmpzip EXCEPT ![p] = IF @ /\ unlink_ok THEN FALSE ELSE @]
    /\ unlink_failed' = [unlink_failed EXCEPT ![p] = tmpzip[p] /\ ~unlink_ok]
    /\ pc' = [pc EXCEPT ![p] = "done"]
    /\ UNCHANGED <<db, hist, exc, raised, entered, aborted, scratch, pending,
                   store>>
    /\ UNCHANGED <<swallowed, extractVars, assetVars, laterVars>>

run_project_processing_task(p) ==
    \/ \E dbok \in BOOLEAN : task_begin(p, dbok)
    \/ \E o \in DownloadOutcomes : process_download(p, o)
    \/ \E o \in ExtractOutcomes, files \in SUBSET AssetFiles :
          process_extract_render(p, o, files)
    \/ \E f \in AssetFiles, o \in UploadOutcomes : process_upload(p, f, o)
    \/ \E o \in UploadOutcomes : write_index(p, o)
    \/ \E dbok \in BOOLEAN : task_complete(p, dbok)
    \/ \E dbok \in BOOLEAN : task_except(p, dbok)
    \/ \E ok \in BOOLEAN : task_finally(p, ok)

ExtractIdle ==
    /\ xn = 0 /\ xi = 0 /\ xcur = [abs |-> FALSE, segs |-> <<>>]
    /\ xout = "none" /\ xtree = {} /\ xpc = "off" /\ xskips = 0

AssetIdle ==
    /\ apath = [abs |-> FALSE, segs |-> <<>>] /\ apid = 0
    /\ ares = [kind |-> "none",
               base |-> [root |-> "projects", project |-> 0, dir |-> "previews"],
               rel |-> <<>>]
    /\ astorage = 0

MainIdle ==
    /\ db = [p \in Projects |-> Absent]
    /\ hist = [p \in Projects |-> <<>>]
    /\ pc = [p \in Projects |-> "new"]
    /\ exc = [p \in Projects |-> NoExc]
    /\ raised = [p \in Projects |-> NoExc]
    /\ entered = [p \in Projects |-> FALSE]
    /\ aborted = [p \in Projects |-> FALSE]
    /\ tmpzip = [p \in Projects |-> FALSE]
    /\ scratch = [p \in Projects |-> FALSE]
    /\ pending = [p \in Projects |-> {}]
    /\ store = [p \in Projects |-> [files |-> {}, index |-> FALSE]]
    /\ unlink_failed = [p \in Projects |-> FALSE]
    /\ swallowed = [p \in Projects |-> {}]

EndpointIdle ==
    /\ epath = [abs |-> FALSE, segs |-> <<>>] /\ eexists = FALSE
    /\ estored = FALSE /\ eresp = 0

RenderIdle ==
    /\ rpc = "off" /\ rexe = "present" /\ rsources = 0 /\ rboard = FALSE
    /\ index = [schematics |-> <<>>, layouts |-> <<>>, models |-> <<>>]
    /\ rlayer = 0 /\ rentries = <<>>
    /\ rlast = [kind |-> "none", message |-> ""]
    /\ rstage = [schematics |-> "none", layouts |-> "none", models |-> "none",
                 cli |-> "none", sheets |-> 0, tried |-> 0]

SheetsIdle ==
    /\ sfiles = {} /\ cout = [kind |-> "none"] /\ sbundle = [kind |-> "none"]

GridIdle ==
    /\ gcount = 0 /\ gres = <<>>

NamesIdle ==
    /\ uused = {} /\ ureturned = <<>>

LoopIdle ==
    /\ lpos = "off" /\ lthread = "free" /\ linv = 0
    /\ larrived = 0 /\ lserved = 0

PairIdle ==
    /\ qpc = [r \in Runs |-> "off"]
    /\ qarchive = [r \in Runs |-> "none"]
    /\ qdir = [r \in Runs |-> 0]
    /\ qexc = [r \in Runs |-> NoExc]
    /\ ptable = [r \in Runs |-> Absent]
    /\ ptmp = {} /\ pfiles = {} /\ pstorage = {}

MetaIdle ==
    /\ mfile = [state |-> "absent"] /\ mpc = "off"
    /\ mres = [kind |-> "none"] /\ mstatus = ""

FinalIdle == NamesIdle /\ LoopIdle /\ PairIdle /\ MetaIdle

LaterIdle ==
    EndpointIdle /\ RenderIdle /\ SheetsIdle /\ GridIdle /\ FinalIdle

\* no project row exists and no task is scheduled.
Init ==
    /\ MainIdle
    /\ ExtractIdle
    /\ AssetIdle
    /\ LaterIdle

Next ==
    \/ \E p \in Projects, t \in SourceTypes, u \in BOOLEAN :
          create_project_endpoint(p, t, u)
    \/ \E p \in Projects : upgrade(p)
    \/ \E p \in Projects : delete_project(p)
    \/ \E p \in Projects : run_project_processing_task(p)

Spec == Init /\ [][Next]_vars

(***************************************************************************)
(* Properties of the processing state machine (checked under Spec).        *)
(***************************************************************************)

Terminal == {COMPLETED, FAILED}

\* C1: when run_project_processing_task has returned for a project whose
\* status it set to "processing", the status is "completed" or "failed",
\* never still "processing".
C1_ProcessingReachesTerminal ==
    \A p \in Projects :
        (pc[p] = "done" /\ entered[p] /\ db[p].exists)
            => db[p].status \in Terminal

IsPrefix(s, t) ==
    /\ Len(s) <= Len(t)
    /\ \A i \in 1..Len(s) : s[i] = t[i]

Rank(st) ==
    CASE st = QUEUED -> 0
      [] st = PROCESSING -> 1
      [] OTHER -> 2

\* C2 (as stated): the committed statuses of every project form a prefix
\* of queued, processing, (completed | failed).
C2_StatusSequenceIsPrefix ==
    \A p \in Projects :
        \E t \in Terminal : IsPrefix(hist[p], <<QUEUED, PROCESSING, t>>)

\* C2 (amended): the committed statuses of every project only move forward
\* in the order queued < processing < (completed | failed): the sequence
\* starts with queued or with completed, "processing" is never followed by
\* another "processing", and a terminal status is never changed again.
C2_StatusSequenceForward ==
    \A p \in Projects :
        /\ hist[p] # <<>> => hist[p][1] \in {QUEUED, COMPLETED}
        /\ \A i, j \in 1..Len(hist[p]) :
              i < j => Rank(hist[p][i]) < Rank(hist[p][j])

C2_Witness ==
    \E p \in Projects :
        /\ pc[p] = "done"
        /\ hist[p] = <<QUEUED, PROCESSING, FAILED>>

\* C3: when an exception left the extract/render/publish sequence, the
\* project ends "failed" with processing_error equal to str(exc).
C3_RaisedEndsFailed ==
    \A p \in Projects :
        (pc[p] = "done" /\ raised[p] # NoExc /\ db[p].exists)
            => (db[p].status = FAILED /\ db[p].error = raised[p])

\* C4: when the archive could not be downloaded, opened or extracted, the
\* project's final status is "failed", never "completed".
C4_AbortedEndsFailed ==
    \A p \in Projects :
        (pc[p] = "done" /\ aborted[p] /\ db[p].exists)
            => db[p].status = FAILED

\* C5: a status "completed" reached through a processing run implies that
\* the manifest index.json of the run is in storage.
C5_CompletedImpliesManifest ==
    \A p \in Projects :
        (entered[p] /\ db[p].exists /\ db[p].status = COMPLETED)
            => store[p].index

C28_ErrorMatchesStatus ==
    \A p \in Projects :
        db[p].exists =>
            /\ db[p].status = COMPLETED => db[p].error = NoError
            /\ db[p].status = FAILED =>
                  /\ exc[p] # NoExc
                  /\ db[p].error = exc[p]

C28_Witness ==
    \E p \in Projects :
        /\ db[p].exists
        /\ db[p].status = FAILED
        /\ db[p].error = ExcLocal
        /\ pc[p] = "done"

\* a step of the task of p
TaskStep(p) == pc'[p] # pc[p]

\* C30: when the project record does not exist as the background task
\* starts, the task changes no project's status or error, runs no
\* extraction or rendering and writes nothing to storage; it only deletes
\* the temporary archive file (an OSError of the unlink is logged).
C30_MissingProjectOnlyCleansUp ==
    [][\A p \in Projects :
          (/\ TaskStep(p)
           /\ pc[p] \in {"scheduled", "except", "finally"}
           /\ ~entered[p]
           /\ ~db[p].exists) =>
              /\ UNCHANGED <<db, hist, store, scratch, pending, swallowed,
                             aborted, raised, entered>>
              /\ pc'[p] \in {"except", "finally", "done"}
              /\ pc'[p] = "done" => (tmpzip'[p] => unlink_failed'[p])
              /\ \A q \in Projects \ {p} : tmpzip'[q] = tmpzip[q]]_vars

C30_Witness ==
    \E p \in Projects :
        /\ pc[p] = "done"
        /\ ~entered[p]
        /\ exc[p] = NoExc
        /\ hist[p] # <<>>
        /\ ~db[p].exists
        /\ ~tmpzip[p]

(***************************************************************************)
(* SpecExtract: _safe_extract (previews.py:281-307).                       *)
(*                                                                         *)
(* A path segment is the sequence of the pieces of its name, "." being a   *)
(* piece of its own: b.txt is <<"b", ".", "txt">>, .. is <<".", ".">>.     *)
(* A member filename is [abs, segs]: a leading "/" and its segments.       *)
(* The members are regular files.                                          *)
(***************************************************************************)
DotDot == <<".", ".">>
SegTxt == <<"b", ".", "txt">>
SegSch == <<"x", ".", "kicad_sch">>
SegDSStore == <<".", "DS_Store">>
SegMacOSX == <<"__MACOSX">>

Segments == {DotDot, SegTxt, SegSch, SegDSStore, SegMacOSX}

SeqsUpTo(S, n) == UNION {[1..k -> S] : k \in 0..n}

MemberNames ==
    {[abs |-> a, segs |-> sg] :
        a \in BOOLEAN, sg \in (SeqsUpTo(Segments, MaxDepth) \ {<<>>})}

NoMember == [abs |-> FALSE, segs |-> <<>>]

\* previews.py:34
_SAFE_SOURCE_SUFFIXES ==
    {<<".", "kicad_sch">>, <<".", "kicad_pcb">>,
     <<".", "kicad_pro">>, <<".", "kicad_prl">>}

\* destination.resolve(): the extraction root inside the scratch directory
DestRoot == <<<<"tmp">>, <<"work">>, <<"extracted">>>>

Last(sq) == sq[Len(sq)]

\* pathlib suffix of a name: from the last "." on, unless that "." is the
\* first or the last character of the name.
NameSuffix(seg) ==
    LET dots == {i \in 1..Len(seg) : seg[i] = "."}
    IN  IF dots = {} THEN <<>>
        ELSE LET i == CHOOSE d \in dots : \A e \in dots : e <= d
             IN  IF 1 < i /\ i < Len(seg)
                 THEN SubSeq(seg, i, Len(seg))
                 ELSE <<>>

\* Path(filename).suffix (previews.py:301)
PathSuffix(segs) == IF segs = <<>> THEN <<>> ELSE NameSuffix(Last(segs))

RECURSIVE Normalize(_, _)
\* Path.resolve() on a tree without symbolic links: ".." removes the last
\* component, and the parent of the filesystem root is the root.
Normalize(base, segs) ==
    IF segs = <<>> THEN base
    ELSE IF segs[1] = DotDot
         THEN Normalize(IF base = <<>> THEN <<>>
                        ELSE SubSeq(base, 1, Len(base) - 1), Tail(segs))
         ELSE Normalize(Append(base, segs[1]), Tail(segs))

\* the target path without resolve(): ".." segments are kept as they are.
Resolve_Lexical(name) ==
    IF name.abs THEN name.segs ELSE DestRoot \o name.segs

\* previews.py:293: (dest_root / filename).resolve()
Resolve(name) ==
    IF name.abs THEN Normalize(<<>>, name.segs)
    ELSE Normalize(DestRoot, name.segs)

\* previews.py:294-298: target_path.relative_to(dest_root) succeeds
WithinDestination(path) ==
    /\ Len(path) >= Len(DestRoot)
    /\ SubSeq(path, 1, Len(DestRoot)) = DestRoot

\* previews.py:290: filename.startswith("__MACOSX/") or
\* filename.endswith("/.DS_Store")
IsMetadataMember(name) ==
    \/ /\ ~name.abs
       /\ Len(name.segs) >= 2
       /\ name.segs[1] = SegMacOSX
    \/ /\ Last(name.segs) = SegDSStore
       /\ (Len(name.segs) >= 2 \/ name.abs)

\* zipfile.ZipFile.extract: the member is written below the destination
\* under its name without leading "/" and without ".." components.
ZipTarget(name) == SelectSeq(name.segs, LAMBDA sg : sg # DotDot)

IsProperPrefix(a, b) ==
    /\ Len(a) < Len(b)
    /\ SubSeq(b, 1, Len(a)) = a

\* writing a file at target fails with an OSError when the target is the
\* destination itself or an existing directory, or when one of its parent
\* directories is an existing file.
WriteFails(tree, target) ==
    \/ target = <<>>
    \/ \E f \in tree : IsProperPrefix(target, f)
    \/ \E f \in tree : IsProperPrefix(f, target)

\* the loop body with the unsafe member logged but still extracted.
MemberOutcome_NoContinue(name, tree) ==
    IF IsMetadataMember(name) THEN "skipped_metadata"
    ELSE IF WriteFails(tree, ZipTarget(name)) THEN "OSError"
    ELSE "extracted"

\* previews.py:288-307: what one iteration of the loop does with a member.
MemberOutcome(name, tree) ==
    IF IsMetadataMember(name) THEN "skipped_metadata"
    ELSE IF /\ ~WithinDestination(Resolve(name))
            /\ PathSuffix(name.segs) \notin _SAFE_SOURCE_SUFFIXES
         THEN "skipped_unsafe"
    ELSE IF WriteFails(tree, ZipTarget(name)) THEN "OSError"
    ELSE "extracted"

\* previews.py:288-307: one iteration of "for member in zip_file.infolist()"
\* on the next member of the archive; the loop ends after the last member,
\* or with the OSError of a failed write.
_safe_extract(member) ==
    /\ xpc = "loop"
    /\ xi < xn
    /\ LET out == MemberOutcome(member, xtree)
       IN  /\ xcur' = member
           /\ xout' = out
           /\ xi' = xi + 1
           /\ xtree' = IF out = "extracted"
                       THEN xtree \cup {ZipTarget(member)} ELSE xtree
           /\ xskips' = IF out = "skipped_unsafe" THEN xskips + 1 ELSE xskips
           /\ xpc' = IF out = "OSError" THEN "OSError"
                     ELSE IF xi + 1 = xn THEN "done" ELSE "loop"
    /\ UNCHANGED xn
    /\ UNCHANGED <<mainVars, assetVars, laterVars>>

\* an archive of 0..MaxMembers members and an empty destination.
InitExtract ==
    /\ MainIdle
    /\ AssetIdle
    /\ LaterIdle
    /\ xn \in 0..MaxMembers
    /\ xi = 0
    /\ xcur = NoMember
    /\ xout = "none"
    /\ xtree = {}
    /\ xskips = 0
    /\ xpc = IF xn = 0 THEN "done" ELSE "loop"

NextExtract == \E member \in MemberNames : _safe_extract(member)

SpecExtract == InitExtract /\ [][NextExtract]_vars

(***************************************************************************)
(* Properties of _safe_extract (checked under SpecExtract).  They speak    *)
(* about the member the loop has just handled (xcur) and what was done     *)
(* with it (xout).                                                         *)
(***************************************************************************)

HasParentSegment(name) == \E i \in 1..Len(name.segs) : name.segs[i] = DotDot

SourceExtensions == {"kicad_sch", "kicad_pcb", "kicad_pro", "kicad_prl"}

\* the name ends in ".ext" with ext a whitelisted source extension
HasSourceExtension(name) ==
    LET n == Last(name.segs)
    IN  /\ Len(n) >= 3
        /\ n[Len(n) - 1] = "."
        /\ n[Len(n)] \in SourceExtensions

\* the name leaves the destination root: it is absolute, or at some point
\* it has gone up more levels than it has gone down.
Escapes(name) ==
    \/ name.abs
    \/ \E k \in 1..Len(name.segs) :
          Cardinality({i \in 1..k : name.segs[i] = DotDot})
            > Cardinality({i \in 1..k : name.segs[i] # DotDot})

C8_EscapingOnlyWhitelisted ==
    (xout # "none" /\ ~WithinDestination(Resolve(xcur)))
        => /\ xout = "extracted"
                 => PathSuffix(xcur.segs) \in _SAFE_SOURCE_SUFFIXES
           /\ PathSuffix(xcur.segs) \notin _SAFE_SOURCE_SUFFIXES
                 => xout \in {"skipped_unsafe", "skipped_metadata"}
           /\ xout = "skipped_unsafe"
                 => xpc = IF xi = xn THEN "done" ELSE "loop"

C8_Witness ==
    /\ xskips >= 1
    /\ xout = "extracted"
    /\ ~WithinDestination(Resolve(xcur))

\* a file of the OS metadata conventions: anything under the top-level
\* __MACOSX/ directory, and any .DS_Store file at any depth.
IsOsMetadata(name) ==
    \/ (~name.abs /\ Len(name.segs) >= 2 /\ name.segs[1] = SegMacOSX)
    \/ Last(name.segs) = SegDSStore

\* C9: entries of the OS metadata conventions are never extracted.
C9_MetadataNeverExtracted ==
    xout = "extracted" => ~IsOsMetadata(xcur)

(***************************************************************************)
(* SpecAsset: validate_preview_asset_path (previews.py:646-668) applied to *)
(* a client-supplied asset path [abs, segs].                               *)
(***************************************************************************)
Dot == <<".">>
SegSvg == <<"p", ".", "svg">>
SegGlbUpper == <<"m", ".", "GLB">>
SegDotSvg == <<".", "svg">>
SegDir == <<"d">>

AssetSegments == {DotDot, Dot, SegSvg, SegGlbUpper, SegTxt, SegDotSvg, SegDir}

AssetPaths ==
    {[abs |-> a, segs |-> sg] :
        a \in BOOLEAN, sg \in SeqsUpTo(AssetSegments, MaxAssetDepth)}

\* previews.py:28,33
_PREVIEW_DIR_NAME == "previews"
_SAFE_ASSET_SUFFIXES == {<<".", "svg">>, <<".", "glb">>}

\* str.lower() on the pieces of a name
Lower(piece) ==
    CASE piece = "GLB" -> "glb"
      [] piece = "SVG" -> "svg"
      [] OTHER -> piece

LowerSeq(sq) == [i \in 1..Len(sq) |-> Lower(sq[i])]

\* Path(asset_path).parts without the anchor: "." components are dropped
PathParts(segs) == SelectSeq(segs, LAMBDA sg : sg # Dot)

\* _sanitize_asset_path without the test of the ".." parts.
_sanitize_asset_path_AbsoluteOnly(asset) ==
    IF asset.abs
    THEN [ok |-> FALSE, parts |-> <<>>]
    ELSE [ok |-> TRUE, parts |-> PathParts(asset.segs)]

\* previews.py:660-664
_sanitize_asset_path(asset) ==
    IF asset.abs \/ \E i \in 1..Len(PathParts(asset.segs)) :
                       PathParts(asset.segs)[i] = DotDot
    THEN [ok |-> FALSE, parts |-> <<>>]
    ELSE [ok |-> TRUE, parts |-> PathParts(asset.segs)]

\* one preview base for all projects.
_project_preview_base_Shared(project_id) ==
    [root |-> "projects", project |-> 0, dir |-> _PREVIEW_DIR_NAME]

\* previews.py:667-668: Path("projects") / str(project_id) / "previews"
_project_preview_base(project_id) ==
    [root |-> "projects", project |-> project_id, dir |-> _PREVIEW_DIR_NAME]

NoResult == [kind |-> "none", base |-> _project_preview_base(0), rel |-> <<>>]
NotFound == [kind |-> "FileNotFoundError", base |-> _project_preview_base(0),
             rel |-> <<>>]

\* previews.py:646-657: the value returned, or the FileNotFoundError raised
validate_preview_asset_path(project_id, asset) ==
    LET clean == _sanitize_asset_path(asset)
    IN  IF ~clean.ok THEN NotFound
        ELSE IF LowerSeq(PathSuffix(clean.parts)) \notin _SAFE_ASSET_SUFFIXES
        THEN NotFound
        ELSE [kind |-> "path", base |-> _project_preview_base(project_id),
              rel |-> clean.parts]

\* one call of validate_preview_asset_path; it makes no call on storage.
Validate ==
    /\ ares = NoResult
    /\ ares' = validate_preview_asset_path(apid, apath)
    /\ UNCHANGED <<apath, apid, astorage>>
    /\ UNCHANGED <<mainVars, extractVars, laterVars>>

InitAsset ==
    /\ MainIdle
    /\ ExtractIdle
    /\ LaterIdle
    /\ apath \in AssetPaths
    /\ apid \in Projects
    /\ ares = NoResult
    /\ astorage = 0

NextAsset == Validate

SpecAsset == InitAsset /\ [][NextAsset]_vars

AllowedExtensions == {"svg", "SVG", "glb", "GLB"}

\* the last component of the path ends in ".ext" with ext allowed
HasAllowedExtension(asset) ==
    LET parts == SelectSeq(asset.segs, LAMBDA sg : sg # Dot)
    IN  /\ parts # <<>>
        /\ LET n == Last(parts)
           IN  /\ Len(n) >= 3
               /\ n[Len(n) - 1] = "."
               /\ n[Len(n)] \in AllowedExtensions

\* C10: validate_preview_asset_path returns projects/{id}/previews/{path}
\* if and only if the path is not absolute, has no ".." segment and its
\* extension is, ignoring case, .svg or .glb; otherwise it raises
\* FileNotFoundError; it never accesses storage.
C10_ResolvesIffCleanAndAllowed ==
    ares.kind # "none" =>
        /\ ares.kind = "path"
              <=> (~apath.abs /\ ~HasParentSegment(apath)
                     /\ HasAllowedExtension(apath))
        /\ ares.kind = "path" =>
              /\ ares.base = [root |-> "projects", project |-> apid,
                              dir |-> "previews"]
              /\ ares.rel = SelectSeq(apath.segs, LAMBDA sg : sg # Dot)
        /\ ares.kind # "path" => ares = NotFound
        /\ astorage = 0

C10_Witness ==
    /\ ares.kind = "path"
    /\ Len(ares.rel) = MaxAssetDepth

(***************************************************************************)
(* SpecEndpoint: one request to get_project_preview_asset                  *)
(* (api/routes/projects.py:240-277) for a client-supplied asset path.      *)
(***************************************************************************)
\* routes/projects.py:54-61, the keys of _MEDIA_TYPES
_MEDIA_TYPES ==
    {<<".", "svg">>, <<".", "glb">>, <<".", "png">>, <<".", "jpg">>,
     <<".", "jpeg">>, <<".", "webp">>}

\* the status codes of fastapi.status used by the endpoint
HTTP_200_OK == 200
HTTP_404_NOT_FOUND == 404
HTTP_500_INTERNAL_SERVER_ERROR == 500
NoResponse == 0

TypeError == [kind |-> "TypeError", base |-> _project_preview_base(0),
              rel |-> <<>>]

\* the parameters of validate_preview_asset_path (previews.py:646-648)
validate_preview_asset_path_parameters ==
    <<"storage", "project_id", "asset_path">>

\* a call of validate_preview_asset_path with the positional arguments
\* args: Python binds them to the parameters in order and raises TypeError
\* when a parameter without default is left unbound.
Call_validate_preview_asset_path(args) ==
    IF Len(args) # Len(validate_preview_asset_path_parameters)
    THEN TypeError
    ELSE validate_preview_asset_path(args[2], args[3])

\* routes/projects.py:248-277.  eexists: the project row exists
\* (get_project raises 404 otherwise); estored: storage.read finds the
\* object.  The call at line 251 passes (project_id, asset_path).
get_project_preview_asset ==
    /\ eresp = NoResponse
    /\ eresp' =
         IF ~eexists THEN HTTP_404_NOT_FOUND
         ELSE LET storage_path ==
                      Call_validate_preview_asset_path(<<apid, epath>>)
              IN  CASE storage_path.kind = "FileNotFoundError" ->
                          HTTP_404_NOT_FOUND
                    [] storage_path.kind # "path" ->
                          HTTP_500_INTERNAL_SERVER_ERROR
                    [] OTHER ->
                          IF LowerSeq(PathSuffix(storage_path.rel))
                                \notin _MEDIA_TYPES
                          THEN HTTP_404_NOT_FOUND
                          ELSE IF ~estored THEN HTTP_404_NOT_FOUND
                          ELSE HTTP_200_OK
    /\ UNCHANGED <<epath, eexists, estored>>
    /\ UNCHANGED <<mainVars, extractVars, assetVars, renderVars, sheetVars,
                   gridVars, finalVars>>

InitEndpoint ==
    /\ MainIdle /\ ExtractIdle /\ RenderIdle /\ SheetsIdle /\ GridIdle
    /\ FinalIdle
    /\ apath = [abs |-> FALSE, segs |-> <<>>]
    /\ apid \in Projects
    /\ ares = NoResult
    /\ astorage = 0
    /\ epath \in AssetPaths
    /\ eexists \in BOOLEAN
    /\ estored \in BOOLEAN
    /\ eresp = NoResponse

NextEndpoint == get_project_preview_asset

SpecEndpoint == InitEndpoint /\ [][NextEndpoint]_vars

\* C11: for an existing project, get_project_preview_asset answers a
\* request whose asset path is rejected, or whose asset is missing from
\* storage, with 404, and no client-supplied asset path yields a 500.
C11_RejectedOrMissingIsNotFound ==
    (eexists /\ eresp # NoResponse) =>
        /\ eresp # HTTP_500_INTERNAL_SERVER_ERROR
        /\ (epath.abs \/ HasParentSegment(epath)
              \/ ~HasAllowedExtension(epath) \/ ~estored)
             => eresp = HTTP_404_NOT_FOUND

(***************************************************************************)
(* SpecGrid: _grid_dimensions (previews.py:86-93, the same code as         *)
(* svg_utils.grid_dimensions) applied to a count.                          *)
(***************************************************************************)
MaxCount == 60

GridCounts == (0 - MaxCount)..MaxCount

RECURSIVE FloorSqrtFrom(_, _)
FloorSqrtFrom(n, k) ==
    IF (k + 1) * (k + 1) > n THEN k ELSE FloorSqrtFrom(n, k + 1)

\* math.ceil(math.sqrt(n)) for n >= 1: the float square root of an integer
\* of this size is exact for a perfect square and lies strictly between
\* two integers otherwise.
CeilSqrt(n) ==
    LET f == FloorSqrtFrom(n, 0)
    IN  IF f * f = n THEN f ELSE f + 1

\* the quotient rounded down.
CeilDiv_Floor(a, b) == a \div b

\* math.ceil(a / b) for a >= 0, b >= 1
CeilDiv(a, b) == IF a % b = 0 THEN a \div b ELSE (a \div b) + 1

\* _grid_dimensions with the square root rounded down.
_grid_dimensions_FloorSqrt(count) ==
    IF count <= 0 THEN <<1, 1>>
    ELSE LET columns == FloorSqrtFrom(count, 0)
             rows == CeilDiv(count, columns)
         IN  <<rows, columns>>

\* previews.py:86-93: (rows, columns)
_grid_dimensions(count) ==
    IF count <= 0 THEN <<1, 1>>
    ELSE LET columns == CeilSqrt(count)
             rows == CeilDiv(count, columns)
         IN  <<rows, columns>>

\* one call of _grid_dimensions
Call_grid_dimensions(count) ==
    /\ gres = <<>>
    /\ gcount' = count
    /\ gres' = _grid_dimensions(count)
    /\ UNCHANGED <<mainVars, extractVars, assetVars, endpointVars,
                   renderVars, sheetVars, finalVars>>

InitGrid ==
    /\ MainIdle /\ ExtractIdle /\ AssetIdle
    /\ EndpointIdle /\ RenderIdle /\ SheetsIdle /\ FinalIdle
    /\ gcount = 0
    /\ gres = <<>>

NextGrid == \E count \in GridCounts : Call_grid_dimensions(count)

SpecGrid == InitGrid /\ [][NextGrid]_vars

\* the least natural number x with Q(x), searched in 0..n
Least(n, Q(_)) == CHOOSE x \in 0..n : Q(x) /\ \A y \in 0..n : Q(y) => x <= y

\* C16: for every N >= 1 the grid shape is (rows, columns) with columns
\* the least c such that c*c >= N and rows the least r such that
\* r*columns >= N; for N <= 0 it is (1, 1).
C16_GridShapeIsLeast ==
    gres # <<>> =>
        IF gcount >= 1
        THEN LET columns == Least(gcount, LAMBDA c : c * c >= gcount)
                 rows == Least(gcount, LAMBDA r : r * columns >= gcount)
             IN  gres = <<rows, columns>>
        ELSE gres = <<1, 1>>

C16_Witness ==
    /\ gres # <<>>
    /\ gcount > 2
    /\ gres[1] < gres[2]

\* C27: for every N >= 1 the grid is balanced and tight: columns - rows
\* is 0 or 1, and no row is empty: (rows - 1) * columns < N <= rows * columns.
C27_GridBalancedAndTight ==
    (gres # <<>> /\ gcount >= 1) =>
        LET rows == gres[1]
            columns == gres[2]
        IN  /\ columns - rows \in {0, 1}
            /\ (rows - 1) * columns < gcount
            /\ gcount <= rows * columns

C27_Witness ==
    /\ gres # <<>>
    /\ gcount >= 1
    /\ gres[2] - gres[1] = 1
    /\ gcount < gres[1] * gres[2]

(***************************************************************************)
(* SpecSheets: _compose_svg_grid (previews.py:96-167) and                  *)
(* _render_schematic_bundle (previews.py:322-414) applied to the SVG files *)
(* the export of a schematic left in its temporary directory.              *)
(***************************************************************************)
MaxSheets == 4

\* SVG files: the root attributes width, height and viewBox (<<>> when the
\* attribute is absent or not numeric), the text of the <title> element
\* (<<>> when there is none) and the tags of the child elements of the root.
\* A text is the sequence of its pieces: words of letters and digits, and
\* the characters between them ("/../Power" is "/", ".", ".", "/", "Power").
SvgLandscape ==
    [width |-> <<2>>, height |-> <<1>>, viewBox |-> <<>>,
     title |-> <<"/", ".", ".", "/", "Power">>, tags |-> <<"path", "text">>]
SvgPortrait ==
    [width |-> <<1>>, height |-> <<2>>, viewBox |-> <<>>,
     title |-> <<>>, tags |-> <<"path">>]
SvgViewBoxOnly ==
    [width |-> <<>>, height |-> <<>>, viewBox |-> <<0, 0, 3, 3>>,
     title |-> <<>>, tags |-> <<>>]
SvgNoDimensions ==
    [width |-> <<1>>, height |-> <<>>, viewBox |-> <<0, 0>>,
     title |-> <<>>, tags |-> <<"path">>]

SvgKinds == {SvgLandscape, SvgPortrait, SvgViewBoxOnly, SvgNoDimensions}

\* the files *.svg of a directory: stems 1..n, any content
SvgFileSets(n) ==
    UNION {{{[stem |-> i, svg |-> f[i]] : i \in 1..k} : f \in [1..k -> SvgKinds]}
              : k \in 0..n}

\* sorted(tmp_path.glob("*.svg")), previews.py:348
RECURSIVE sorted(_)
sorted(files) ==
    IF files = {} THEN <<>>
    ELSE LET first == CHOOSE f \in files : \A g \in files : f.stem <= g.stem
         IN  <<first>> \o sorted(files \ {first})

\* ET.parse(svg_path): the element tree of a file; every child element of
\* the root is an object of its own.
ET_parse(file) ==
    [width |-> file.svg.width, height |-> file.svg.height,
     viewBox |-> file.svg.viewBox,
     children |-> [k \in 1..Len(file.svg.tags) |->
                      [id |-> [owner |-> "source", sheet |-> file.stem, n |-> k],
                       tag |-> file.svg.tags[k]]]]

\* previews.py:49-83: width and height attributes, else the viewBox, else
\* ValueError (ok = FALSE)
_parse_svg_dimensions(tree) ==
    IF tree.width # <<>> /\ tree.height # <<>>
    THEN [ok |-> TRUE, width |-> tree.width[1], height |-> tree.height[1]]
    ELSE IF Len(tree.viewBox) = 4
    THEN [ok |-> TRUE, width |-> tree.viewBox[3], height |-> tree.viewBox[4]]
    ELSE [ok |-> FALSE, width |-> 0, height |-> 0]

\* padding_ratio as a fraction; 0.05 is the default (previews.py:96)
DefaultPadding == [num |-> 1, den |-> 20]
PaddingRatios == {DefaultPadding, [num |-> 1, den |-> 10]}

Max(S) == CHOOSE x \in S : \A y \in S : y <= x

\* a canvas that keeps the padding after the last cell.
CanvasSize_TrailingPadding(cells, cell, padding) == cells * cell

\* previews.py:124-125: cols * cell_width - padding_x
CanvasSize(cells, cell, padding) == cells * cell - padding

\* a placement that fills the grid column by column.
Placement_ColumnMajor(idx, rows, cols) ==
    [row |-> idx % rows, col |-> idx \div rows]

\* previews.py:138-139: row = index // cols, col = index % cols
Placement(idx, rows, cols) ==
    [row |-> idx \div cols, col |-> idx % cols]

\* the children of a tree appended to the group without a copy.
deepcopy_Shared(children, idx) == children

\* copy.deepcopy(list(tree.getroot())), previews.py:161: new elements with
\* the content of the old ones
deepcopy(children, idx) ==
    [k \in 1..Len(children) |->
        [id |-> [owner |-> "composed", sheet |-> idx, n |-> k],
         tag |-> children[k].tag]]

\* min(scale_x, scale_y) of two fractions <<numerator, denominator>>
MinFraction(a, b) == IF a[1] * b[2] <= b[1] * a[2] THEN a ELSE b

\* previews.py:96-167.  Lengths of the result are in units of
\* 1/padding_ratio.den; a RuntimeError is returned as kind "RuntimeError".
_compose_svg_grid(svgs, padding_ratio) ==
    LET trees == [i \in 1..Len(svgs) |-> ET_parse(svgs[i])]
        dimensions == [i \in 1..Len(svgs) |-> _parse_svg_dimensions(trees[i])]
    IN  IF \E i \in 1..Len(svgs) : ~dimensions[i].ok
        THEN [kind |-> "RuntimeError", message |-> "Unable to read dimensions"]
        ELSE IF trees = <<>>
        THEN [kind |-> "RuntimeError",
              message |-> "No SVGs supplied for composition"]
        ELSE
        LET max_width == Max({dimensions[i].width : i \in 1..Len(svgs)})
            max_height == Max({dimensions[i].height : i \in 1..Len(svgs)})
            grid == _grid_dimensions(Len(trees))
            rows == grid[1]
            cols == grid[2]
            padding_x == max_width * padding_ratio.num
            padding_y == max_height * padding_ratio.num
            cell_width == max_width * padding_ratio.den + padding_x
            cell_height == max_height * padding_ratio.den + padding_y
            scale(dim) ==
                MinFraction(
                    IF dim.width # 0 THEN <<max_width, dim.width>> ELSE <<1, 1>>,
                    IF dim.height # 0 THEN <<max_height, dim.height>>
                    ELSE <<1, 1>>)
        IN  [kind |-> "ok",
             width |-> CanvasSize(cols, cell_width, padding_x),
             height |-> CanvasSize(rows, cell_height, padding_y),
             groups |->
                [i \in 1..Len(trees) |->
                    LET at == Placement(i - 1, rows, cols)
                    IN  [row |-> at.row, col |-> at.col,
                         translate_x |-> at.col * cell_width,
                         translate_y |-> at.row * cell_height,
                         scale |-> IF scale(dimensions[i])[1]
                                        = scale(dimensions[i])[2]
                                   THEN <<>> ELSE scale(dimensions[i]),
                         children |-> deepcopy(trees[i].children, i)]],
             trees |-> trees]

NoCall == [kind |-> "none"]

\* one call of _compose_svg_grid on the files, in sorted order
Call_compose_svg_grid(padding_ratio) ==
    /\ cout.kind = "none"
    /\ cout' = [result |-> _compose_svg_grid(sorted(sfiles), padding_ratio),
                kind |-> _compose_svg_grid(sorted(sfiles), padding_ratio).kind,
                padding_ratio |-> padding_ratio]
    /\ UNCHANGED <<sfiles, sbundle>>
    /\ UNCHANGED <<mainVars, extractVars, assetVars, endpointVars,
                   renderVars, gridVars, finalVars>>

\* previews.py:29
_SCHEMATIC_DIR == "schematics"

\* config.py:51-55, the default of settings.kicad_cli_timeout_seconds
kicad_cli_timeout_seconds == 120

\* what the configured executable does when it is started
ToolBehaviours ==
    {"exit_0", "exit_nonzero", "hangs", "missing", "not_executable"}

\* subprocess.run(command, check=True, timeout=timeout): the value
\* returned or the exception raised.  Without a timeout (timeout = 0) a
\* tool that hangs blocks the caller.
subprocess_run(behaviour, timeout) ==
    CASE behaviour = "exit_0" -> "CompletedProcess"
      [] behaviour = "exit_nonzero" -> "CalledProcessError"
      [] behaviour = "hangs" ->
            IF timeout > 0 THEN "TimeoutExpired" ELSE "blocked"
      [] behaviour = "missing" -> "FileNotFoundError"
      [] behaviour = "not_executable" -> "PermissionError"

\* previews.py:541-556: the three exceptions the function translates into
\* RuntimeError; any other exception of subprocess.run leaves it unchanged.
_run_cli(behaviour) ==
    LET ran == subprocess_run(behaviour, kicad_cli_timeout_seconds)
    IN  CASE ran = "CompletedProcess" -> [kind |-> "ok", message |-> ""]
          [] ran = "FileNotFoundError" ->
                [kind |-> "RuntimeError",
                 message |-> "kicad-cli executable not found"]
          [] ran = "TimeoutExpired" ->
                [kind |-> "RuntimeError",
                 message |-> "kicad-cli command timed out"]
          [] ran = "CalledProcessError" ->
                [kind |-> "RuntimeError",
                 message |-> "kicad-cli exited with code"]
          [] OTHER -> [kind |-> ran, message |-> ""]

\* str.lower() on a word of a title
lower(word) == IF word = "Power" THEN "power" ELSE word

\* previews.py:675-684: the text of <title>, else the stem of the file.
\* A text is a sequence of words.
_derive_sheet_title(file) ==
    IF file.svg.title # <<>> THEN file.svg.title
    ELSE <<"sheet", ToString(file.stem)>>

\* the pieces of a text that are not letters or digits
Punctuation == {"/", ".", " ", "_"}

\* _slugify that only lowers the case.
_slugify_LowerOnly(words) ==
    IF words = <<>> THEN <<"sheet">>
    ELSE [i \in 1..Len(words) |-> lower(words[i])]

\* previews.py:687-691: every run of other characters becomes one "-", so
\* the slug is the words of letters and digits in lower case, joined by "-"
_slugify(words) ==
    LET kept == SelectSeq(words, LAMBDA w : w \notin Punctuation)
    IN  IF kept = <<>> THEN <<"sheet">>
        ELSE [i \in 1..Len(kept) |-> lower(kept[i])]

\* f"{idx:02d}"
Format02d(idx) == IF idx < 10 THEN "0" \o ToString(idx) ELSE ToString(idx)

RECURSIVE _unique_filename_loop(_, _, _, _)
_unique_filename_loop(base, extension, used, counter) ==
    LET candidate == [base |-> Append(base, ToString(counter)),
                      ext |-> extension]
    IN  IF candidate \in used
        THEN _unique_filename_loop(base, extension, used, counter + 1)
        ELSE candidate

\* _unique_filename without the counter loop.
_unique_filename_NoCounter(base, extension, used) ==
    [base |-> base, ext |-> extension]

\* previews.py:694-700
_unique_filename(base, extension, used) ==
    IF [base |-> base, ext |-> extension] \in used
    THEN _unique_filename_loop(base, extension, used, 1)
    ELSE [base |-> base, ext |-> extension]

\* previews.py:352-373: the page entries, in the order of exported
RECURSIVE PagesFrom(_, _, _)
PagesFrom(exported, idx, used_filenames) ==
    IF idx > Len(exported) THEN <<>>
    ELSE LET title == _derive_sheet_title(exported[idx])
             slug == _slugify(<<Format02d(idx)>> \o title)
             filename == _unique_filename(slug, ".svg", used_filenames)
         IN  <<[id |-> slug, filename |-> filename, title |-> title,
                page |-> idx,
                path |-> [dir |-> _SCHEMATIC_DIR, filename |-> filename]]>>
             \o PagesFrom(exported, idx + 1, used_filenames \cup {filename})

\* the composed entry recorded whether or not the composition succeeded.
composed_entry_of_Unchecked(result, bundle_id, composed_filename) ==
    <<[id |-> Append(bundle_id, "grid"), filename |-> composed_filename,
       title |-> <<"All", "sheets">>,
       path |-> [dir |-> _SCHEMATIC_DIR, filename |-> composed_filename]]>>

\* previews.py:379-391: composed_entry (<<>> for None); an exception of
\* _compose_svg_grid is logged
composed_entry_of(result, bundle_id, composed_filename) ==
    IF result.kind # "ok" THEN <<>>
    ELSE <<[id |-> Append(bundle_id, "grid"), filename |-> composed_filename,
            title |-> <<"All", "sheets">>,
            path |-> [dir |-> _SCHEMATIC_DIR,
                      filename |-> composed_filename]]>>

\* the first page taken as representative in every case.
first_entry_of_AlwaysFirstPage(composed_entry, pages) == pages[1]

\* previews.py:401: first_entry = composed_entry or pages[0]
first_entry_of(composed_entry, pages) ==
    IF composed_entry # <<>> THEN composed_entry[1] ELSE pages[1]

\* previews.py:322-414.  behaviour: what the executable does; files: the
\* SVG files it leaves in the temporary directory when it exits with 0;
\* all_sources: the schematic sources found, the first one is rendered.
\* The result is the list returned together with the files written to
\* output_dir and the outcome of the composition, or the exception raised.
_render_schematic_bundle(behaviour, files, all_sources) ==
    LET cli == _run_cli(behaviour)
        exported == sorted(files)
    IN  IF cli.kind # "ok"
        THEN [kind |-> cli.kind, message |-> cli.message]
        ELSE IF exported = <<>>
        THEN [kind |-> "RuntimeError", message |-> "No schematic SVG generated"]
        ELSE
        LET pages == PagesFrom(exported, 1, {})
            used_filenames == {pages[i].filename : i \in 1..Len(pages)}
            copied_svg_paths ==
                [i \in 1..Len(pages) |->
                    [stem |-> exported[i].stem, svg |-> exported[i].svg]]
            composed_filename ==
                _unique_filename(<<"schematic", "grid">>, ".svg", used_filenames)
            composition ==
                IF Len(copied_svg_paths) > 1
                THEN _compose_svg_grid(copied_svg_paths, DefaultPadding)
                ELSE NoCall
            bundle_id == _slugify(all_sources[1])
            composed_entry ==
                IF Len(copied_svg_paths) > 1
                THEN composed_entry_of(composition, bundle_id, composed_filename)
                ELSE <<>>
            first_entry == first_entry_of(composed_entry, pages)
        IN  [kind |-> "ok", message |-> "",
             bundles |->
                <<[id |-> bundle_id,
                   filename |-> first_entry.filename,
                   title |-> first_entry.title,
                   path |-> first_entry.path,
                   page_count |-> Len(pages),
                   pages |-> pages,
                   sources |-> all_sources,
                   multi_page |-> Len(pages) > 1]>>,
             written |-> used_filenames \cup
                         (IF composition.kind = "ok"
                          THEN {composed_filename} ELSE {}),
             composition |-> composition]

\* the schematic sources of an archive, by name
Sources(n) == [i \in 1..n |-> <<"Main", ToString(i)>>]

\* one call of _render_schematic_bundle
Call_render_schematic_bundle(behaviour) ==
    /\ sbundle.kind = "none"
    /\ sbundle' = [kind |-> "returned", behaviour |-> behaviour,
                   result |-> _render_schematic_bundle(
                                  behaviour, sfiles, Sources(1))]
    /\ UNCHANGED <<sfiles, cout>>
    /\ UNCHANGED <<mainVars, extractVars, assetVars, endpointVars,
                   renderVars, gridVars, finalVars>>

InitSheets ==
    /\ MainIdle /\ ExtractIdle /\ AssetIdle
    /\ EndpointIdle /\ RenderIdle /\ GridIdle /\ FinalIdle
    /\ sfiles \in SvgFileSets(MaxSheets)
    /\ cout = NoCall
    /\ sbundle = NoCall

NextSheets ==
    \/ \E padding_ratio \in PaddingRatios : Call_compose_svg_grid(padding_ratio)
    \/ \E behaviour \in ToolBehaviours : Call_render_schematic_bundle(behaviour)

SpecSheets == InitSheets /\ [][NextSheets]_vars

(***************************************************************************)
(* Properties of the composition and of the schematic stage (checked       *)
(* under SpecSheets).                                                      *)
(***************************************************************************)
\* the drawing declares its size: numeric width and height, or a viewBox
\* of four numbers
HasDeclaredSize(svg) ==
    (svg.width # <<>> /\ svg.height # <<>>) \/ Len(svg.viewBox) = 4

DeclaredWidth(svg) ==
    IF svg.width # <<>> /\ svg.height # <<>> THEN svg.width[1]
    ELSE svg.viewBox[3]

DeclaredHeight(svg) ==
    IF svg.width # <<>> /\ svg.height # <<>> THEN svg.height[1]
    ELSE svg.viewBox[4]

AllSized == \A f \in sfiles : HasDeclaredSize(f.svg)

LeastColumns(n) == Least(n, LAMBDA c : c * c >= n)
LeastRows(n) == Least(n, LAMBDA r : r * LeastColumns(n) >= n)

\* C17: for N >= 1 drawings with declared widths w_i, heights h_i and
\* padding ratio p the composed canvas is
\* columns*(max(w_i)*(1+p)) - max(w_i)*p wide and
\* rows*(max(h_i)*(1+p)) - max(h_i)*p high (both sides in units of 1/den
\* for p = num/den).
C17_CanvasSize ==
    (cout.kind # "none" /\ sfiles # {} /\ AllSized) =>
        LET N == Cardinality(sfiles)
            p == cout.padding_ratio
            W == Max({DeclaredWidth(f.svg) : f \in sfiles})
            H == Max({DeclaredHeight(f.svg) : f \in sfiles})
        IN  /\ cout.kind = "ok"
            /\ cout.result.width =
                  LeastColumns(N) * (W * (p.den + p.num)) - W * p.num
            /\ cout.result.height =
                  LeastRows(N) * (H * (p.den + p.num)) - H * p.num

C17_Witness ==
    /\ cout.kind = "ok"
    /\ Cardinality(sfiles) >= 2
    /\ cout.result.width # cout.result.height
    /\ \E f, g \in sfiles : DeclaredWidth(f.svg) # DeclaredWidth(g.svg)

\* C18: the composition of N drawings has exactly N placement groups; the
\* i-th (zero-based) holds a copy of all content of the i-th input and is
\* translated to cell (i div columns, i mod columns), inside the grid; no
\* two inputs share a cell, no content is dropped or duplicated, and the
\* source drawings are unmodified.
C18_PlacementGroups ==
    cout.kind = "ok" =>
        LET N == Cardinality(sfiles)
            inputs == sorted(sfiles)
            groups == cout.result.groups
            p == cout.padding_ratio
            columns == LeastColumns(N)
            rows == LeastRows(N)
            pitch_x == Max({DeclaredWidth(f.svg) : f \in sfiles})
                          * (p.den + p.num)
            pitch_y == Max({DeclaredHeight(f.svg) : f \in sfiles})
                          * (p.den + p.num)
        IN  /\ Len(groups) = N
            /\ \A i \in 1..N :
                  /\ groups[i].row = (i - 1) \div columns
                  /\ groups[i].col = (i - 1) % columns
                  /\ groups[i].row < rows
                  /\ groups[i].col < columns
                  /\ groups[i].translate_x = groups[i].col * pitch_x
                  /\ groups[i].translate_y = groups[i].row * pitch_y
                  /\ Len(groups[i].children) = Len(inputs[i].svg.tags)
                  /\ \A k \in 1..Len(inputs[i].svg.tags) :
                        /\ groups[i].children[k].tag = inputs[i].svg.tags[k]
                        /\ groups[i].children[k].id.owner # "source"
            /\ \A i, j \in 1..N :
                  i # j => <<groups[i].row, groups[i].col>>
                              # <<groups[j].row, groups[j].col>>
            /\ \A i, j \in 1..N :
                  \A k \in 1..Len(groups[i].children),
                     l \in 1..Len(groups[j].children) :
                        (i # j \/ k # l) =>
                            groups[i].children[k].id # groups[j].children[l].id
            /\ cout.result.trees = [i \in 1..N |-> ET_parse(inputs[i])]

C18_Witness ==
    /\ cout.kind = "ok"
    /\ Cardinality(sfiles) >= 3
    /\ \E i \in 1..Len(cout.result.groups) :
          /\ cout.result.groups[i].row >= 1
          /\ Len(cout.result.groups[i].children) >= 2

\* the title of the i-th exported sheet
SheetTitle(file) ==
    IF file.svg.title # <<>> THEN file.svg.title
    ELSE <<"sheet", ToString(file.stem)>>

GridFilename == [base |-> <<"schematic", "grid">>, ext |-> ".svg"]

\* C15: a successful schematic stage returns exactly one entry with
\* page_count = length of pages >= 1, multi_page iff page_count > 1, pages
\* numbered 1..page_count in export order, and path/filename/title of the
\* composed grid when more than one sheet was produced and the composition
\* succeeded, else of the first page; 4 sheets give page_count = 4, 4 pages
\* and a 2x2 grid.
C15_SingleSchematicEntry ==
    (sbundle.kind = "returned" /\ sbundle.result.kind = "ok") =>
        LET res == sbundle.result
            exported == sorted(sfiles)
            N == Cardinality(sfiles)
            b == res.bundles[1]
        IN  /\ Len(res.bundles) = 1
            /\ b.page_count = Len(b.pages)
            /\ b.page_count >= 1
            /\ b.page_count = N
            /\ b.multi_page <=> b.page_count > 1
            /\ \A i \in 1..Len(b.pages) :
                  /\ b.pages[i].page = i
                  /\ b.pages[i].title = SheetTitle(exported[i])
                  /\ b.pages[i].filename \in res.written
            /\ IF N > 1 /\ AllSized
               THEN /\ b.filename = GridFilename
                    /\ b.title = <<"All", "sheets">>
                    /\ b.path = [dir |-> "schematics", filename |-> GridFilename]
                    /\ GridFilename \in res.written
                    /\ \A i \in 1..N : b.pages[i].filename # GridFilename
               ELSE /\ b.filename = b.pages[1].filename
                    /\ b.title = b.pages[1].title
                    /\ b.path = b.pages[1].path
            /\ N = 4 =>
                  /\ b.page_count = 4
                  /\ Len(b.pages) = 4
                  /\ AllSized =>
                        /\ res.composition.kind = "ok"
                        /\ {<<res.composition.groups[i].row,
                              res.composition.groups[i].col>> : i \in 1..4}
                             = (0..1) \X (0..1)

C15_Witness ==
    /\ sbundle.kind = "returned"
    /\ sbundle.result.kind = "ok"
    /\ Cardinality(sfiles) = 4
    /\ AllSized
    /\ sbundle.result.bundles[1].filename = GridFilename

\* C20: when more than one sheet was produced and the composition fails
\* (a sheet that declares no size), the stage still returns its single
\* entry with all pages, and path/filename/title are those of the first
\* page.
C20_ComposeFailureFallsBack ==
    (/\ sbundle.kind = "returned"
     /\ sbundle.behaviour = "exit_0"
     /\ Cardinality(sfiles) > 1
     /\ ~AllSized) =>
        LET res == sbundle.result
            b == res.bundles[1]
        IN  /\ res.kind = "ok"
            /\ res.composition.kind = "RuntimeError"
            /\ Len(res.bundles) = 1
            /\ b.page_count = Cardinality(sfiles)
            /\ Len(b.pages) = Cardinality(sfiles)
            /\ \A i \in 1..Len(b.pages) : b.pages[i].page = i
            /\ b.filename = b.pages[1].filename
            /\ b.title = b.pages[1].title
            /\ b.path = b.pages[1].path
            /\ res.written = {b.pages[i].filename : i \in 1..Len(b.pages)}

C20_Witness ==
    /\ sbundle.kind = "returned"
    /\ sbundle.result.kind = "ok"
    /\ Cardinality(sfiles) >= 3
    /\ ~AllSized
    /\ sbundle.result.composition.kind = "RuntimeError"

(***************************************************************************)
(* SpecRender: one run of process_project_archive from the extraction on   *)
(* (previews.py:199-278), stage by stage, followed by the rest of          *)
(* run_project_processing_task.                                            *)
(***************************************************************************)
MaxRunSheets == 1
MaxSources == 1
NumInnerLayers == 0

\* previews.py:30-31
_LAYOUT_DIR == "layouts"
_MODEL_DIR == "models"

ExcRender == "render stage error"

\* how settings.kicad_cli_path is installed on the host, and what the
\* executable can do then when it is started
Installations == {"installed", "missing", "not_executable"}

BehavioursOf(installation) ==
    CASE installation = "installed" -> {"exit_0", "exit_nonzero", "hangs"}
      [] installation = "missing" -> {"missing"}
      [] installation = "not_executable" -> {"not_executable"}

\* previews.py:422-448: front, back and the inner layers (30 in the code)
layer_specs ==
    <<[key |-> "front", title |-> "Front copper"],
      [key |-> "back", title |-> "Back copper"]>>
    \o [i \in 1..NumInnerLayers |->
           [key |-> "inner-" \o ToString(i),
            title |-> "Inner Layer " \o ToString(i)]]

\* the exception classes caught by `except Exception` around the board
\* stages, restricted to OS errors.
BoardStageCatches_OSErrorOnly == {"PermissionError"}

\* previews.py:248 and 257: `except Exception`
BoardStageCatches == {"RuntimeError", "PermissionError"}

\* the exception classes caught around the schematic stage, restricted to
\* OS errors.
SchematicStageCatches_OSErrorOnly == {"PermissionError"}

\* previews.py:235: `except Exception`
SchematicStageCatches == {"RuntimeError", "PermissionError"}

\* only a complete set of layers is added to the manifest.
extend_layouts_AllOrNothing(layouts, layout_entries) ==
    IF Len(layout_entries) = Len(layer_specs)
    THEN layouts \o layout_entries ELSE layouts

\* previews.py:246-247
extend_layouts(layouts, layout_entries) ==
    IF layout_entries # <<>> THEN layouts \o layout_entries ELSE layouts

\* previews.py:199-222: extraction, output directories, the empty index
\* and the sources found in the extracted tree.  An exception of
\* _read_project_metadata (SpecMeta) is one of those that leave the
\* function here (outcome "raise"); the `project` entry of the index is
\* followed in SpecMeta.
process_extract(p, outcome, nsources, board) ==
    /\ pc[p] = "render"
    /\ rpc = "extract"
    /\ CASE outcome = "ok" ->
              /\ rpc' = "schematics"
              /\ rsources' = nsources
              /\ rboard' = board
              /\ index' = [schematics |-> <<>>, layouts |-> <<>>,
                           models |-> <<>>]
              /\ UNCHANGED <<pc, raised, exc, aborted, scratch>>
         [] outcome \in {"BadZipFile", "OSError"} ->
              /\ Return(p)
              /\ aborted' = [aborted EXCEPT ![p] = TRUE]
              /\ rpc' = "off"
              /\ UNCHANGED <<rsources, rboard, index>>
         [] outcome \in {"raise", "mkdir"} ->
              /\ Raise(p, ExcLocal)
              /\ rpc' = "off"
              /\ UNCHANGED <<aborted, rsources, rboard, index>>
    /\ UNCHANGED <<db, hist, entered, tmpzip, pending, store, unlink_failed,
                   swallowed>>
    /\ UNCHANGED <<rexe, rlayer, rentries, rlast, rstage>>
    /\ UNCHANGED <<extractVars, assetVars, endpointVars, sheetVars, gridVars,
                   finalVars>>

\* previews.py:262-267: the walk over previews_root starts
StartUpload(p, files) ==
    /\ rpc' = "done"
    /\ pc' = [pc EXCEPT ![p] = IF files = {} THEN "write_index" ELSE "upload"]
    /\ UNCHANGED <<raised, exc, scratch>>

\* an exception no stage handler catches leaves process_project_archive
StageRaises(p) ==
    /\ Raise(p, ExcRender)
    /\ rpc' = "off"

\* previews.py:224-242: the schematic stage and the test of board_file
process_schematics(p, behaviour, files) ==
    /\ pc[p] = "render"
    /\ rpc = "schematics"
    /\ LET res == _render_schematic_bundle(behaviour, files, Sources(rsources))
           written == IF rsources > 0 /\ res.kind = "ok"
                      THEN {[dir |-> _SCHEMATIC_DIR, filename |-> f] :
                               f \in res.written}
                      ELSE {}
       IN  /\ pending' = [pending EXCEPT ![p] = @ \cup written]
           /\ IF rsources = 0
              THEN /\ rstage' = [rstage EXCEPT !.schematics = "skipped"]
                   /\ UNCHANGED <<index, rlast>>
              ELSE /\ rlast' = _run_cli(behaviour)
                   /\ rstage' = [rstage EXCEPT
                         !.schematics = IF res.kind = "ok" THEN "ok"
                                        ELSE "failed",
                         !.cli = _run_cli(behaviour).kind,
                         !.sheets = IF _run_cli(behaviour).kind = "ok"
                                    THEN Cardinality(files) ELSE 0]
                   /\ index' = IF res.kind = "ok"
                               THEN [index EXCEPT !.schematics = res.bundles]
                               ELSE index
           /\ IF rsources > 0 /\ res.kind \notin ({"ok"} \cup SchematicStageCatches)
              THEN /\ StageRaises(p)
                   /\ UNCHANGED <<rlayer>>
              ELSE IF rboard
              THEN /\ rpc' = "layers"
                   /\ rlayer' = 1
                   /\ UNCHANGED <<pc, raised, exc, scratch>>
              ELSE /\ StartUpload(p, pending[p] \cup written)
                   /\ UNCHANGED rlayer
    /\ UNCHANGED <<db, hist, entered, aborted, tmpzip, store, unlink_failed,
                   swallowed>>
    /\ UNCHANGED <<rexe, rsources, rboard, rentries>>
    /\ UNCHANGED <<extractVars, assetVars, endpointVars, sheetVars, gridVars,
                   finalVars>>

\* previews.py:244-251 and 452-503: one iteration of the loop of
\* _render_board_svgs; after the last one the entries are added to the
\* index.  exists: the tool left the output file.  rstage.tried counts
\* the layer specs whose command was run.
process_board_layer(p, behaviour, exists) ==
    /\ pc[p] = "render"
    /\ rpc = "layers"
    /\ LET spec == layer_specs[rlayer]
           cli == _run_cli(behaviour)
           filename == [base |-> <<spec.key>>, ext |-> ".svg"]
           path == [dir |-> _LAYOUT_DIR, filename |-> filename]
           produced == cli.kind = "ok" /\ exists
           entries == IF produced
                      THEN Append(rentries,
                                  [id |-> spec.key, filename |-> filename,
                                   title |-> spec.title, path |-> path])
                      ELSE rentries
       IN  /\ rlast' = cli
           /\ pending' = [pending EXCEPT ![p] =
                             IF produced THEN @ \cup {path} ELSE @]
           /\ IF cli.kind \notin {"ok", "RuntimeError"}
              THEN /\ rentries' = <<>>
                   /\ rlayer' = 0
                   /\ rstage' = [rstage EXCEPT !.layouts = "failed",
                                                !.tried = rlayer]
                   /\ UNCHANGED index
                   /\ IF cli.kind \in BoardStageCatches
                      THEN /\ rpc' = "glb"
                           /\ UNCHANGED <<pc, raised, exc, scratch>>
                      ELSE StageRaises(p)
              ELSE IF rlayer = Len(layer_specs)
              THEN /\ index' = [index EXCEPT
                                   !.layouts = extend_layouts(@, entries)]
                   /\ rentries' = <<>>
                   /\ rlayer' = 0
                   /\ rstage' = [rstage EXCEPT !.layouts = "returned",
                                                !.tried = rlayer]
                   /\ rpc' = "glb"
                   /\ UNCHANGED <<pc, raised, exc, scratch>>
              ELSE /\ rentries' = entries
                   /\ rlayer' = rlayer + 1
                   /\ rstage' = [rstage EXCEPT !.tried = rlayer]
                   /\ UNCHANGED <<index, rpc, pc, raised, exc, scratch>>
    /\ UNCHANGED <<db, hist, entered, aborted, tmpzip, store, unlink_failed,
                   swallowed>>
    /\ UNCHANGED <<rexe, rsources, rboard>>
    /\ UNCHANGED <<extractVars, assetVars, endpointVars, sheetVars, gridVars,
                   finalVars>>

\* previews.py:253-260 and 506-538: the 3-D model, then the upload starts
process_board_glb(p, behaviour, exists) ==
    /\ pc[p] = "render"
    /\ rpc = "glb"
    /\ LET cli == _run_cli(behaviour)
           filename == [base |-> <<"board">>, ext |-> ".glb"]
           path == [dir |-> _MODEL_DIR, filename |-> filename]
           produced == cli.kind = "ok" /\ exists
           files == IF produced THEN pending[p] \cup {path} ELSE pending[p]
       IN  /\ rlast' = cli
           /\ pending' = [pending EXCEPT ![p] = files]
           /\ index' = IF produced
                       THEN [index EXCEPT !.models =
                               Append(@, [id |-> "board-3d",
                                          filename |-> filename,
                                          title |-> "3D model",
                                          path |-> path])]
                       ELSE index
           /\ rstage' = [rstage EXCEPT !.models =
                            IF cli.kind = "ok" THEN "returned" ELSE "failed"]
           /\ IF cli.kind \in {"ok"} \cup BoardStageCatches
              THEN StartUpload(p, files)
              ELSE StageRaises(p)
    /\ UNCHANGED <<db, hist, entered, aborted, tmpzip, store, unlink_failed,
                   swallowed>>
    /\ UNCHANGED <<rexe, rsources, rboard, rlayer, rentries>>
    /\ UNCHANGED <<extractVars, assetVars, endpointVars, sheetVars, gridVars,
                   finalVars>>

\* the project of the run
RunProject == CHOOSE p \in Projects : \A q \in Projects : p <= q

\* the row is `processing`, the archive has been downloaded into the
\* scratch directory, and the executable is installed in some way.
InitRender ==
    /\ db = [p \in Projects |->
                IF p = RunProject
                THEN [exists |-> TRUE, status |-> PROCESSING, error |-> NoError]
                ELSE Absent]
    /\ hist = [p \in Projects |->
                  IF p = RunProject THEN <<QUEUED, PROCESSING>> ELSE <<>>]
    /\ pc = [p \in Projects |-> IF p = RunProject THEN "render" ELSE "new"]
    /\ exc = [p \in Projects |-> NoExc]
    /\ raised = [p \in Projects |-> NoExc]
    /\ entered = [p \in Projects |-> p = RunProject]
    /\ aborted = [p \in Projects |-> FALSE]
    /\ tmpzip = [p \in Projects |-> p = RunProject]
    /\ scratch = [p \in Projects |-> p = RunProject]
    /\ pending = [p \in Projects |-> {}]
    /\ store = [p \in Projects |-> [files |-> {}, index |-> FALSE]]
    /\ unlink_failed = [p \in Projects |-> FALSE]
    /\ swallowed = [p \in Projects |-> {}]
    /\ ExtractIdle /\ AssetIdle /\ EndpointIdle /\ SheetsIdle /\ GridIdle
    /\ FinalIdle
    /\ rpc = "extract"
    /\ rexe \in Installations
    /\ rsources = 0
    /\ rboard = FALSE
    /\ index = [schematics |-> <<>>, layouts |-> <<>>, models |-> <<>>]
    /\ rlayer = 0
    /\ rentries = <<>>
    /\ rlast = [kind |-> "none", message |-> ""]
    /\ rstage = [schematics |-> "none", layouts |-> "none", models |-> "none",
                 cli |-> "none", sheets |-> 0, tried |-> 0]

\* previews.py:267-268: os.walk yields the files under previews_root one
\* after the other, in the order of the directory listing; the next file
\* of the walk
NextOfWalk(files) == IF files = {} THEN {} ELSE {CHOOSE f \in files : TRUE}

NextRender ==
    \E p \in Projects :
        \/ \E o \in ExtractOutcomes, n \in 0..MaxSources, board \in BOOLEAN :
              process_extract(p, o, n, board)
        \/ \E b \in BehavioursOf(rexe), files \in SvgFileSets(MaxRunSheets) :
              process_schematics(p, b, files)
        \/ \E b \in BehavioursOf(rexe), exists \in BOOLEAN :
              process_board_layer(p, b, exists)
        \/ \E b \in BehavioursOf(rexe), exists \in BOOLEAN :
              process_board_glb(p, b, exists)
        \/ \E f \in NextOfWalk(pending[p]), o \in UploadOutcomes :
              process_upload(p, f, o)
        \/ \E o \in UploadOutcomes : write_index(p, o)
        \/ \E dbok \in BOOLEAN : task_complete(p, dbok)
        \/ \E dbok \in BOOLEAN : task_except(p, dbok)
        \/ \E ok \in BOOLEAN : task_finally(p, ok)

SpecRender == InitRender /\ [][NextRender]_vars

(***************************************************************************)
(* Properties of the render stages (checked under SpecRender).             *)
(***************************************************************************)
\* the paths a manifest lists: the representative, the pages, the layers
\* and the models
ManifestPaths(idx) ==
    {idx.schematics[i].path : i \in 1..Len(idx.schematics)}
    \cup UNION {{idx.schematics[i].pages[k].path :
                    k \in 1..Len(idx.schematics[i].pages)} :
                i \in 1..Len(idx.schematics)}
    \cup {idx.layouts[i].path : i \in 1..Len(idx.layouts)}
    \cup {idx.models[i].path : i \in 1..Len(idx.models)}

\* the run of p is over
RunOver(p) == pc[p] = "done" /\ rpc \in {"done", "off"}

\* the archive was extracted, and no call of the storage or of the database
\* failed during the run
Undisturbed(p) ==
    /\ ~aborted[p]
    /\ swallowed[p] = {}
    /\ exc[p] \notin {ExcStorage, ExcDb, ExcLocal}
    /\ raised[p] \notin {ExcStorage, ExcDb, ExcLocal}

\* C12: a run whose archive extracts correctly but has no board file, or
\* whose board yields only some layers, publishes a manifest with exactly
\* the assets produced and ends `completed` (storage and database
\* working); one single-sheet schematic and no board give one schematics
\* entry with multi_page = false and empty layouts and models.
C12_PartialSuccessCompletes ==
    \A p \in Projects :
        (/\ RunOver(p)
         /\ Undisturbed(p)
         /\ ~rboard \/ Len(index.layouts) < Len(layer_specs)) =>
            /\ db[p].status = COMPLETED
            /\ db[p].error = NoError
            /\ store[p].index
            /\ store[p].files = ManifestPaths(index)
            /\ ~rboard => index.layouts = <<>> /\ index.models = <<>>
            /\ (~rboard /\ rstage.cli = "ok" /\ rstage.sheets = 1) =>
                  /\ Len(index.schematics) = 1
                  /\ ~index.schematics[1].multi_page
                  /\ index.layouts = <<>>
                  /\ index.models = <<>>

C12_Witness ==
    \E p \in Projects :
        /\ RunOver(p)
        /\ Undisturbed(p)
        /\ rboard
        /\ Len(index.layouts) = 1
        /\ Len(index.schematics) = 1
        /\ db[p].status = COMPLETED

\* C13: when the rendering executable is not found, every render stage
\* fails by itself, the run is not aborted, the manifest is published with
\* empty schematics, layouts and models, and the status ends `completed`
\* (storage and database working).
C13_MissingExecutableCompletesEmpty ==
    \A p \in Projects :
        (rexe = "missing" /\ RunOver(p) /\ Undisturbed(p)) =>
            /\ rsources > 0 => rstage.schematics = "failed"
            /\ rboard => rstage.layouts # "none" /\ rstage.models = "failed"
            /\ index = [schematics |-> <<>>, layouts |-> <<>>, models |-> <<>>]
            /\ raised[p] = NoExc
            /\ store[p].index
            /\ store[p].files = {}
            /\ db[p].status = COMPLETED

C13_Witness ==
    \E p \in Projects :
        /\ rexe = "missing"
        /\ RunOver(p)
        /\ rsources > 0
        /\ rboard
        /\ store[p].index
        /\ db[p].status = COMPLETED

\* the outcomes of an invocation the claim names
ClassifiedOutcomes ==
    {[kind |-> "ok", message |-> ""],
     [kind |-> "RuntimeError", message |-> "kicad-cli executable not found"],
     [kind |-> "RuntimeError", message |-> "kicad-cli command timed out"],
     [kind |-> "RuntimeError", message |-> "kicad-cli exited with code"]}

\* C14: every invocation of the rendering tool by a stage ends in one of
\* success, executable-not-found, timeout, non-zero exit.
C14_InvocationEndsClassified ==
    rlast.kind # "none" => rlast \in ClassifiedOutcomes

\* C19: an exception of the schematic stage (zero sheets included) leaves
\* `schematics` empty and does not abort the run: the board stages are
\* still attempted, and (storage and database working) the generated
\* assets are uploaded and the manifest is written.
C19_SchematicFailureDoesNotAbort ==
    \A p \in Projects :
        rstage.schematics = "failed" =>
            /\ index.schematics = <<>>
            /\ raised[p] # ExcRender
            /\ rpc # "off"
            /\ (rboard /\ rpc = "done") =>
                  rstage.layouts # "none" /\ rstage.models # "none"
            /\ (RunOver(p) /\ Undisturbed(p)) =>
                  /\ store[p].files = ManifestPaths(index)
                  /\ store[p].index
                  /\ db[p].status = COMPLETED

C19_Witness ==
    \E p \in Projects :
        /\ rstage.schematics = "failed"
        /\ rstage.cli = "ok"
        /\ RunOver(p)
        /\ Undisturbed(p)
        /\ store[p].files # {}
        /\ store[p].index

\* C29: in a processing run the generated asset files are uploaded before
\* the manifest is written, and every asset path a stored manifest refers
\* to has been stored by that run.
C29_ManifestAssetsStored ==
    \A p \in Projects :
        store[p].index =>
            /\ pending[p] = {}
            /\ ManifestPaths(index) \subseteq store[p].files

(***************************************************************************)
(* SpecNames: the filenames of a schematic-stage run.  The stage is run    *)
(* on the sheets of an export, and _unique_filename is called the way the  *)
(* stage calls it (previews.py:358-359, 377): the name returned is added   *)
(* to the used names before the next call.                                 *)
(***************************************************************************)
MaxCalls == 3
MaxNamedSheets == 2

\* the slugs handed to _unique_filename: "a", and "a-1", which is also the
\* first alternative of "a"
Bases == {<<"a">>, <<"a", "1">>}

\* previews.py:358-359: filename = _unique_filename(slug, ".svg",
\* used_filenames); used_filenames.add(filename)
Call_unique_filename(base) ==
    /\ Len(ureturned) < MaxCalls
    /\ LET filename == _unique_filename(base, ".svg", uused)
       IN  /\ ureturned' = Append(ureturned,
                                  [base |-> base, used |-> uused,
                                   result |-> filename])
           /\ uused' = uused \cup {filename}
    /\ UNCHANGED <<mainVars, extractVars, assetVars, endpointVars,
                   renderVars, sheetVars, gridVars, loopVars, pairVars,
                   metaVars>>

\* previews.py:352: used_filenames starts empty
InitNames ==
    /\ MainIdle /\ ExtractIdle /\ AssetIdle
    /\ EndpointIdle /\ RenderIdle /\ GridIdle
    /\ sfiles \in SvgFileSets(MaxNamedSheets)
    /\ cout = NoCall
    /\ sbundle = NoCall
    /\ uused = {}
    /\ ureturned = <<>>
    /\ LoopIdle /\ PairIdle /\ MetaIdle

NextNames ==
    \/ \E base \in Bases : Call_unique_filename(base)
    \/ \E behaviour \in ToolBehaviours : Call_render_schematic_bundle(behaviour)

SpecNames == InitNames /\ [][NextNames]_vars

\* the n-th name of base, base-1, base-2, ... with the extension
Alternative(base, extension, n) ==
    [base |-> IF n = 0 THEN base ELSE Append(base, ToString(n)),
     ext |-> extension]

\* C21: the filenames a schematic-stage run publishes (every page and the
\* composed grid) are pairwise distinct; _unique_filename returns the first
\* of base, base-1, base-2, ... with the extension that is not among the
\* used names, and each name returned is among the used names of the next
\* call.
C21_PublishedFilenamesDistinct ==
    /\ (sbundle.kind = "returned" /\ sbundle.result.kind = "ok") =>
          LET b == sbundle.result.bundles[1]
              composed == sbundle.result.composition.kind = "ok"
          IN  /\ \A i, j \in 1..Len(b.pages) :
                    i # j => b.pages[i].filename # b.pages[j].filename
              /\ composed =>
                    \A i \in 1..Len(b.pages) : b.pages[i].filename # b.filename
              /\ Cardinality(sbundle.result.written)
                    = Len(b.pages) + (IF composed THEN 1 ELSE 0)
    /\ \A k \in 1..Len(ureturned) :
          LET r == ureturned[k]
          IN  /\ \E n \in 0..Cardinality(r.used) :
                    /\ r.result = Alternative(r.base, ".svg", n)
                    /\ r.result \notin r.used
                    /\ \A m \in 0..(n - 1) :
                          Alternative(r.base, ".svg", m) \in r.used
              /\ r.result \in (IF k < Len(ureturned)
                               THEN ureturned[k + 1].used ELSE uused)
    /\ \A j, k \in 1..Len(ureturned) :
          j # k => ureturned[j].result # ureturned[k].result

C21_Witness ==
    /\ sbundle.kind = "returned"
    /\ sbundle.result.kind = "ok"
    /\ sbundle.result.composition.kind = "ok"
    /\ Len(ureturned) = 3
    /\ ureturned[3].base = <<"a", "1">>
    /\ ureturned[3].result = [base |-> <<"a", "1", "1">>, ext |-> ".svg"]

\* the path of the output file of the i-th layer spec
LayerPath(i) ==
    [dir |-> "layouts",
     filename |-> [base |-> <<layer_specs[i].key>>, ext |-> ".svg"]]

\* C22: the board-layer stage tries every layer spec in the fixed order
\* front, back, inner-1, ...; a failure of the tool on one spec skips only
\* that entry, so no failure raises out of the stage and the layouts
\* entries are exactly the specs whose output file was produced, in that
\* order.
C22_LayerFailureSkipsOnlyThatLayer ==
    \A p \in Projects :
        rstage.layouts # "none" =>
            /\ rstage.layouts = "returned"
            /\ rstage.tried = Len(layer_specs)
            /\ rpc = "glb" =>
                  LET produced ==
                          SelectSeq([i \in 1..Len(layer_specs) |-> i],
                                    LAMBDA i : LayerPath(i) \in pending[p])
                  IN  /\ Len(index.layouts) = Len(produced)
                      /\ \A k \in 1..Len(produced) :
                            /\ index.layouts[k].id = layer_specs[produced[k]].key
                            /\ index.layouts[k].path = LayerPath(produced[k])

(***************************************************************************)
(* SpecLoop: the event loop of the server while one background task runs.  *)
(* run_project_processing_task is a coroutine function, so the task added  *)
(* at routes/projects.py:95-100 runs on the thread of the event loop: it   *)
(* holds the thread from one await that suspends to the next.  The storage *)
(* calls suspend (storage/local.py runs them with asyncio.to_thread);      *)
(* _run_cli calls subprocess.run (previews.py:546-550), which returns only *)
(* when the tool has exited or was killed at the timeout.                  *)
(***************************************************************************)
MaxInvocations == 3
MaxRequests == 5

\* projects.py:56-66 and previews.py:189: the task starts and suspends
\* in `await storage.download(...)`
task_await_download ==
    /\ lpos = "scheduled"
    /\ lthread = "free"
    /\ lpos' = "download"
    /\ UNCHANGED <<lthread, linv, larrived, lserved>>
    /\ UNCHANGED <<mainVars, extractVars, assetVars, endpointVars,
                   renderVars, sheetVars, gridVars, nameVars, pairVars,
                   metaVars>>

\* previews.py:199-260: the download is over and the task is resumed; the
\* extraction and the render stages follow without an await.  n: the tool
\* invocations of the run (schematics, board layers, 3-D model); the first
\* subprocess.run is entered, or with n = 0 the task suspends in the upload.
task_resume_render(n) ==
    /\ lpos = "download"
    /\ lthread = "free"
    /\ IF n = 0
       THEN /\ lpos' = "upload"
            /\ UNCHANGED <<lthread, linv>>
       ELSE /\ lpos' = "tool"
            /\ lthread' = "task"
            /\ linv' = n
    /\ UNCHANGED <<larrived, lserved>>
    /\ UNCHANGED <<mainVars, extractVars, assetVars, endpointVars,
                   renderVars, sheetVars, gridVars, nameVars, pairVars,
                   metaVars>>

\* previews.py:541-556: subprocess.run returns or raises (exit, or timeout
\* after kicad_cli_timeout_seconds); the caller goes on to its next
\* invocation, or after the last one suspends in `await storage.upload(...)`
\* (previews.py:273)
run_cli_returns(behaviour) ==
    /\ lpos = "tool"
    /\ _run_cli(behaviour).kind \in {"ok", "RuntimeError"}
    /\ linv' = linv - 1
    /\ IF linv = 1
       THEN /\ lpos' = "upload"
            /\ lthread' = "free"
       ELSE UNCHANGED <<lpos, lthread>>
    /\ UNCHANGED <<larrived, lserved>>
    /\ UNCHANGED <<mainVars, extractVars, assetVars, endpointVars,
                   renderVars, sheetVars, gridVars, nameVars, pairVars,
                   metaVars>>

\* previews.py:262-278 and projects.py:68-91: uploads, index and the
\* status commit, each awaited
task_finish ==
    /\ lpos = "upload"
    /\ lthread = "free"
    /\ lpos' = "done"
    /\ UNCHANGED <<lthread, linv, larrived, lserved>>
    /\ UNCHANGED <<mainVars, extractVars, assetVars, endpointVars,
                   renderVars, sheetVars, gridVars, nameVars, pairVars,
                   metaVars>>

\* a client sends a request to a route of the API
request_arrives ==
    /\ larrived < MaxRequests
    /\ larrived' = larrived + 1
    /\ UNCHANGED <<lpos, lthread, linv, lserved>>
    /\ UNCHANGED <<mainVars, extractVars, assetVars, endpointVars,
                   renderVars, sheetVars, gridVars, nameVars, pairVars,
                   metaVars>>

\* the event loop runs the handler of a waiting request; it can do so only
\* when no coroutine holds its thread
serve_request ==
    /\ lthread = "free"
    /\ lserved < larrived
    /\ lserved' = lserved + 1
    /\ UNCHANGED <<lpos, lthread, linv, larrived>>
    /\ UNCHANGED <<mainVars, extractVars, assetVars, endpointVars,
                   renderVars, sheetVars, gridVars, nameVars, pairVars,
                   metaVars>>

\* routes/projects.py:95-100: the task has been added and the response of
\* the upload request has been sent
InitLoop ==
    /\ MainIdle /\ ExtractIdle /\ AssetIdle
    /\ EndpointIdle /\ RenderIdle /\ SheetsIdle /\ GridIdle /\ NamesIdle
    /\ PairIdle /\ MetaIdle
    /\ lpos = "scheduled"
    /\ lthread = "free"
    /\ linv = 0
    /\ larrived = 0
    /\ lserved = 0

NextLoop ==
    \/ task_await_download
    \/ \E n \in 0..MaxInvocations : task_resume_render(n)
    \/ \E behaviour \in BehavioursOf("installed") : run_cli_returns(behaviour)
    \/ task_finish
    \/ request_arrives
    \/ serve_request

SpecLoop == InitLoop /\ [][NextLoop]_vars

\* C23: while the run waits for an invocation of the external tool, a
\* request that has arrived can be served.
C23_RequestServedDuringRender ==
    (lpos = "tool" /\ lserved < larrived) => ENABLED serve_request

(***************************************************************************)
(* SpecPair: processing runs of different projects on one host.  The       *)
(* directory /tmp/uploads, the directory of temporary directories, the     *)
(* storage and the projects table are shared by all runs; each run names   *)
(* what it reads and writes there from its project id.  The storage and    *)
(* the database work (no call fails by itself).                            *)
(***************************************************************************)
\* previews.py:32
_INDEX_FILENAME == <<"index.json">>

\* what an uploaded archive holds: a schematic, a board, bytes that are no
\* ZIP archive, or an encrypted member (zipfile raises RuntimeError)
Archives == {"schematic", "board", "corrupt", "encrypted"}

\* the file name of the upload
FileNames == {"a.zip"}

\* projects.py:173-175: temp_dir / f"{project.id}_{filename}"
upload_path(project_id, filename) ==
    [dir |-> "/tmp/uploads", id |-> project_id, filename |-> filename]

\* the files the render stages leave under previews_root for an archive
Rendered(archive) ==
    CASE archive = "schematic" -> {<<"schematics", "page.svg">>}
      [] archive = "board" -> {<<"layouts", "front.svg">>}
      [] OTHER -> {}

\* writing a file or an object replaces what was stored under the path
Put(files, path, entry) == {e \in files : e.path # path} \cup {entry}

\* projects.py:103-180 and routes/projects.py:93-101: the row is created,
\* the upload is written to /tmp/uploads and the task is added
pair_create(r, archive, filename) ==
    /\ qpc[r] = "new"
    /\ ptable' = [ptable EXCEPT ![r] = create_project("kicad")]
    /\ ptmp' = Put(ptmp, upload_path(r, filename),
                   [path |-> upload_path(r, filename), content |-> archive])
    /\ qarchive' = [qarchive EXCEPT ![r] = archive]
    /\ qpc' = [qpc EXCEPT ![r] = "scheduled"]
    /\ UNCHANGED <<qdir, qexc, pfiles, pstorage>>
    /\ UNCHANGED <<mainVars, extractVars, assetVars, endpointVars,
                   renderVars, sheetVars, gridVars, nameVars, loopVars,
                   metaVars>>

\* projects.py:56-64: the task's own session reads the row of its project
\* and commits "processing"
pair_begin(r) ==
    /\ qpc[r] = "scheduled"
    /\ ptable' = [ptable EXCEPT ![r].status = PROCESSING]
    /\ qpc' = [qpc EXCEPT ![r] = "download"]
    /\ UNCHANGED <<qarchive, qdir, qexc, ptmp, pfiles, pstorage>>
    /\ UNCHANGED <<mainVars, extractVars, assetVars, endpointVars,
                   renderVars, sheetVars, gridVars, nameVars, loopVars,
                   metaVars>>

\* previews.py:179-197: TemporaryDirectory() makes a directory with a name
\* no existing directory has, and the upload is copied into it; a missing
\* source is a StorageError and the function returns.
pair_download(r, name, filename) ==
    /\ qpc[r] = "download"
    /\ name \notin {qdir[q] : q \in Runs}
    /\ LET source == {e \in ptmp : e.path = upload_path(r, filename)}
       IN  IF source = {}
           THEN /\ qpc' = [qpc EXCEPT ![r] = "complete"]
                /\ UNCHANGED <<qdir, pfiles>>
           ELSE /\ qdir' = [qdir EXCEPT ![r] = name]
                /\ pfiles' = pfiles \cup
                      {[path |-> [dir |-> name, rel |-> <<"archive.zip">>],
                        content |-> e.content] : e \in source}
                /\ qpc' = [qpc EXCEPT ![r] = "render"]
    /\ UNCHANGED <<qarchive, qexc, ptable, ptmp, pstorage>>
    /\ UNCHANGED <<mainVars, extractVars, assetVars, endpointVars,
                   renderVars, sheetVars, gridVars, nameVars, loopVars,
                   metaVars>>

\* the temporary directory of the run is removed on the way out
rmtree(files, name) == {e \in files : e.path.dir # name}

\* previews.py:199-260: extraction and render stages on the archive found
\* in the run's directory
pair_render(r) ==
    /\ qpc[r] = "render"
    /\ LET work_dir == qdir[r]
           archive == (CHOOSE e \in pfiles :
                          e.path = [dir |-> work_dir,
                                    rel |-> <<"archive.zip">>]).content
       IN  CASE archive = "corrupt" ->
                  /\ pfiles' = rmtree(pfiles, work_dir)
                  /\ qdir' = [qdir EXCEPT ![r] = 0]
                  /\ qpc' = [qpc EXCEPT ![r] = "complete"]
                  /\ UNCHANGED qexc
             [] archive = "encrypted" ->
                  /\ pfiles' = rmtree(pfiles, work_dir)
                  /\ qdir' = [qdir EXCEPT ![r] = 0]
                  /\ qexc' = [qexc EXCEPT ![r] = ExcLocal]
                  /\ qpc' = [qpc EXCEPT ![r] = "except"]
             [] OTHER ->
                  /\ pfiles' = pfiles \cup
                        {[path |-> [dir |-> work_dir,
                                    rel |-> <<_PREVIEW_DIR_NAME>> \o rel],
                          content |-> archive] : rel \in Rendered(archive)}
                  /\ qpc' = [qpc EXCEPT ![r] = "upload"]
                  /\ UNCHANGED <<qdir, qexc>>
    /\ UNCHANGED <<qarchive, ptable, ptmp, pstorage>>
    /\ UNCHANGED <<mainVars, extractVars, assetVars, endpointVars,
                   renderVars, sheetVars, gridVars, nameVars, loopVars,
                   metaVars>>

\* the files under previews_root of a work directory, relative to it
PreviewFiles(work_dir) ==
    {e \in pfiles : /\ e.path.dir = work_dir
                    /\ e.path.rel[1] = _PREVIEW_DIR_NAME}

\* previews.py:262-275: every file under previews_root is uploaded to
\* _project_preview_base(project_id) / relative_path
pair_upload(r) ==
    /\ qpc[r] = "upload"
    /\ LET uploads ==
              {[path |-> [base |-> _project_preview_base(r),
                          rel |-> Tail(e.path.rel)],
                content |-> e.content, by |-> r] : e \in PreviewFiles(qdir[r])}
       IN  pstorage' = {e \in pstorage :
                           \A u \in uploads : u.path # e.path} \cup uploads
    /\ qpc' = [qpc EXCEPT ![r] = "index"]
    /\ UNCHANGED <<qarchive, qdir, qexc, ptable, ptmp, pfiles>>
    /\ UNCHANGED <<mainVars, extractVars, assetVars, endpointVars,
                   renderVars, sheetVars, gridVars, nameVars, loopVars,
                   metaVars>>

\* previews.py:277-278 and 562-572: the index is saved under
\* _preview_index_storage_path(project_id); the function returns and the
\* temporary directory is removed
pair_write_index(r) ==
    /\ qpc[r] = "index"
    /\ LET path == [base |-> _project_preview_base(r),
                    rel |-> _INDEX_FILENAME]
           listed == {Tail(e.path.rel) : e \in PreviewFiles(qdir[r])}
       IN  pstorage' = Put(pstorage, path,
                           [path |-> path, content |-> listed, by |-> r])
    /\ pfiles' = rmtree(pfiles, qdir[r])
    /\ qdir' = [qdir EXCEPT ![r] = 0]
    /\ qpc' = [qpc EXCEPT ![r] = "complete"]
    /\ UNCHANGED <<qarchive, qexc, ptable, ptmp>>
    /\ UNCHANGED <<mainVars, extractVars, assetVars, endpointVars,
                   renderVars, sheetVars, gridVars, nameVars, loopVars,
                   metaVars>>

\* projects.py:68-84: "completed", or "failed" with str(exc), is committed
\* to the row of the project
pair_commit(r) ==
    /\ qpc[r] \in {"complete", "except"}
    /\ ptable' = [ptable EXCEPT ![r] =
                     IF qpc[r] = "complete"
                     THEN [exists |-> TRUE, status |-> COMPLETED,
                           error |-> NoError]
                     ELSE [exists |-> TRUE, status |-> FAILED,
                           error |-> qexc[r]]]
    /\ qpc' = [qpc EXCEPT ![r] = "finally"]
    /\ UNCHANGED <<qarchive, qdir, qexc, ptmp, pfiles, pstorage>>
    /\ UNCHANGED <<mainVars, extractVars, assetVars, endpointVars,
                   renderVars, sheetVars, gridVars, nameVars, loopVars,
                   metaVars>>

\* projects.py:85-91: local_zip_path is unlinked if it exists
pair_finally(r, filename) ==
    /\ qpc[r] = "finally"
    /\ ptmp' = {e \in ptmp : e.path # upload_path(r, filename)}
    /\ qpc' = [qpc EXCEPT ![r] = "done"]
    /\ UNCHANGED <<qarchive, qdir, qexc, ptable, pfiles, pstorage>>
    /\ UNCHANGED <<mainVars, extractVars, assetVars, endpointVars,
                   renderVars, sheetVars, gridVars, nameVars, loopVars,
                   metaVars>>

\* no project exists yet
InitPair ==
    /\ MainIdle /\ ExtractIdle /\ AssetIdle
    /\ EndpointIdle /\ RenderIdle /\ SheetsIdle /\ GridIdle
    /\ NamesIdle /\ LoopIdle /\ MetaIdle
    /\ qpc = [r \in Runs |-> "new"]
    /\ qarchive = [r \in Runs |-> "none"]
    /\ qdir = [r \in Runs |-> 0]
    /\ qexc = [r \in Runs |-> NoExc]
    /\ ptable = [r \in Runs |-> Absent]
    /\ ptmp = {}
    /\ pfiles = {}
    /\ pstorage = {}

NextPair ==
    \E r \in Runs :
        \/ \E archive \in Archives, filename \in FileNames :
              pair_create(r, archive, filename)
        \/ pair_begin(r)
        \/ \E name \in Runs, filename \in FileNames :
              pair_download(r, name, filename)
        \/ pair_render(r)
        \/ pair_upload(r)
        \/ pair_write_index(r)
        \/ pair_commit(r)
        \/ \E filename \in FileNames : pair_finally(r, filename)

SpecPair == InitPair /\ [][NextPair]_vars

\* what a run of a project with this archive leaves when it runs alone:
\* the status and error of the row and the objects under the project's
\* preview base (path below the base, content)
Alone(archive) ==
    CASE archive = "schematic" ->
            [status |-> "completed", error |-> "None",
             stored |-> {[rel |-> <<"index.json">>,
                          content |-> {<<"schematics", "page.svg">>}],
                         [rel |-> <<"schematics", "page.svg">>,
                          content |-> "schematic"]}]
      [] archive = "board" ->
            [status |-> "completed", error |-> "None",
             stored |-> {[rel |-> <<"index.json">>,
                          content |-> {<<"layouts", "front.svg">>}],
                         [rel |-> <<"layouts", "front.svg">>,
                          content |-> "board"]}]
      [] archive = "corrupt" ->
            [status |-> "completed", error |-> "None", stored |-> {}]
      [] archive = "encrypted" ->
            [status |-> "failed", error |-> "archive or filesystem error",
             stored |-> {}]

\* the objects stored under the preview base of project r
StoredFor(r) ==
    {[rel |-> e.path.rel, content |-> e.content] :
        e \in {x \in pstorage :
                  x.path.base = [root |-> "projects", project |-> r,
                                 dir |-> "previews"]}}

\* C24: runs of different projects write disjoint temporary archive files,
\* scratch directories, storage paths and rows, and when a run is over the
\* manifest, the assets and the status of its project are those of the run
\* of that archive alone, whatever the other runs did meanwhile.
C24_RunsIndependent ==
    /\ \A r, q \in Runs :
          r # q =>
             /\ qdir[r] # 0 => qdir[r] # qdir[q]
             /\ \A f, g \in FileNames : upload_path(r, f) # upload_path(q, g)
    /\ \A e \in ptmp : qarchive[e.path.id] = e.content
    /\ \A e \in pstorage : e.path.base.project = e.by
    /\ \A r \in Runs :
          qpc[r] = "done" =>
             /\ ptable[r].status = Alone(qarchive[r]).status
             /\ ptable[r].error = Alone(qarchive[r]).error
             /\ StoredFor(r) = Alone(qarchive[r]).stored

C24_Witness ==
    /\ \A r \in Runs : qpc[r] = "done"
    /\ \E r, q \in Runs :
          /\ qarchive[r] = "schematic"
          /\ qarchive[q] = "board"
          /\ StoredFor(r) # StoredFor(q)

(***************************************************************************)
(* The paths of a manifest as a client sends them back.                    *)
(***************************************************************************)
\* the pieces of an extension
ExtensionPieces(ext) ==
    IF ext = ".glb" THEN <<".", "glb">> ELSE <<".", "svg">>

\* the "/"-separated parts of a text given by its pieces
RECURSIVE SplitParts(_, _)
SplitParts(pieces, current) ==
    IF pieces = <<>> THEN <<current>>
    ELSE IF Head(pieces) = "/"
    THEN <<current>> \o SplitParts(Tail(pieces), <<>>)
    ELSE SplitParts(Tail(pieces), Append(current, Head(pieces)))

\* previews.py:372, 390, 498, 536 and 661: the string f"{dir}/{filename}"
\* of a manifest entry, read as Path(asset_path); pathlib drops the empty
\* parts
ManifestAssetPath(path) ==
    [abs |-> FALSE,
     segs |-> SelectSeq(
                 SplitParts(<<path.dir, "/">> \o path.filename.base
                               \o ExtensionPieces(path.filename.ext), <<>>),
                 LAMBDA part : part # <<>>)]

\* C25: every path a processing run writes into its manifest (schematics
\* entry, pages, layouts, models) is relative, has no ".." part and an
\* allowed extension, and validate_preview_asset_path accepts it for the
\* project of the run.
C25_ManifestPathsAccepted ==
    \A p \in Projects :
        \A path \in ManifestPaths(index) :
            LET asset == ManifestAssetPath(path)
                resolved == validate_preview_asset_path(p, asset)
            IN  /\ ~asset.abs
                /\ ~HasParentSegment(asset)
                /\ HasAllowedExtension(asset)
                /\ resolved.kind = "path"
                /\ resolved.base = [root |-> "projects", project |-> p,
                                    dir |-> "previews"]

C25_Witness ==
    /\ Len(index.schematics) = 1
    /\ index.schematics[1].title = <<"/", ".", ".", "/", "Power">>
    /\ Len(index.layouts) = 2
    /\ Len(index.models) = 1

(***************************************************************************)
(* SpecMeta: _read_project_metadata applied to the project file of an      *)
(* extracted archive, at its call site in process_project_archive          *)
(* (previews.py:214-219), and the handler of the task that receives what   *)
(* it raises (projects.py:72-84).                                          *)
(***************************************************************************)
NumFields == 2

\* previews.py:592-613: the keys read from the title block or the metadata
\* (title, company, revision, date), the first NumFields of them
Fields == {<<"title", "company", "revision", "date">>[i] : i \in 1..NumFields}

\* Python's None
None == "None"

\* a JSON object holding some of the fields, each with a value that tells
\* where it was written
FieldDicts(where) == UNION {[S -> {where}] : S \in SUBSET Fields}

\* what the document holds under "title_block"
TitleBlocks ==
    {[type |-> "missing"], [type |-> "string"]}
    \cup {[type |-> "object", fields |-> d] :
             d \in FieldDicts("of title block")}

\* what the document holds under "metadata" or "meta"
MetadataValues ==
    {[type |-> "missing"], [type |-> "null"], [type |-> "string"]}
    \cup {[type |-> "object", title_block |-> tb, fields |-> d] :
             tb \in TitleBlocks, d \in FieldDicts("of metadata")}

\* the documents json.loads accepts: objects and the other JSON values
Documents ==
    {[type |-> t] : t \in {"null", "array", "number", "string", "boolean"}}
    \cup {[type |-> "object", metadata |-> a, meta |-> b] :
             a, b \in MetadataValues}

\* the states of the first *.kicad_pro under the extraction root
ProjectFiles ==
    {[state |-> s] :
        s \in {"absent", "unreadable", "not_utf8", "invalid_json"}}
    \cup {[state |-> "json", data |-> doc] : doc \in Documents}

\* isinstance(value, dict)
IsDict(value) == value.type = "object"

\* bool(value) of a value stored under "metadata" or "meta": None and the
\* empty dict are false
Truthy(value) ==
    CASE value.type \in {"missing", "null"} -> FALSE
      [] value.type = "string" -> TRUE
      [] value.type = "object" ->
            value.title_block.type # "missing" \/ DOMAIN value.fields # {}

\* dict.get(key) of a field
GetField(fields, key) == IF key \in DOMAIN fields THEN fields[key] ELSE None

\* previews.py:589: data.get("metadata") or data.get("meta") or {}
MetadataOf(data) ==
    IF Truthy(data.metadata) THEN data.metadata
    ELSE IF Truthy(data.meta) THEN data.meta
    ELSE [type |-> "object", title_block |-> [type |-> "missing"],
          fields |-> <<>>]

\* previews.py:590
TitleBlockOf(metadata) ==
    IF IsDict(metadata) THEN metadata.title_block
    ELSE [type |-> "object", fields |-> <<>>]

\* previews.py:575-614.  The result is the dict returned, or the exception
\* that leaves the function.
_read_project_metadata(file) ==
    CASE file.state = "absent" -> [kind |-> "returned", value |-> <<>>]
      [] file.state \in {"unreadable", "invalid_json"} ->
            [kind |-> "returned", value |-> <<>>]
      [] file.state = "not_utf8" ->
            [kind |-> "raised", error |-> "UnicodeDecodeError"]
      [] file.state = "json" ->
            IF ~IsDict(file.data)
            THEN [kind |-> "raised", error |-> "AttributeError"]
            ELSE LET metadata == MetadataOf(file.data)
                     title_block == TitleBlockOf(metadata)
                 IN  [kind |-> "returned",
                      value |->
                         [k \in {"source"} \cup Fields |->
                             IF k = "source" THEN "project.kicad_pro"
                             ELSE IF IsDict(title_block)
                                  THEN GetField(title_block.fields, k)
                                  ELSE GetField(metadata.fields, k)]]

\* previews.py:214-219: the index is built around the metadata read
build_index ==
    /\ mpc = "index"
    /\ mres' = _read_project_metadata(mfile)
    /\ mpc' = IF mres'.kind = "returned" THEN "built" ELSE "raised"
    /\ UNCHANGED <<mfile, mstatus>>
    /\ UNCHANGED <<mainVars, extractVars, assetVars, endpointVars, renderVars,
                   sheetVars, gridVars, nameVars, loopVars, pairVars>>

\* previews.py:221-222: the run goes on to the sources of the render stages
find_sources ==
    /\ mpc = "built"
    /\ mpc' = "stages"
    /\ UNCHANGED <<mfile, mres, mstatus>>
    /\ UNCHANGED <<mainVars, extractVars, assetVars, endpointVars, renderVars,
                   sheetVars, gridVars, nameVars, loopVars, pairVars>>

\* projects.py:72-84: the exception leaves process_project_archive and the
\* task records the failure
meta_task_except ==
    /\ mpc = "raised"
    /\ mpc' = "failed"
    /\ mstatus' = FAILED
    /\ UNCHANGED <<mfile, mres>>
    /\ UNCHANGED <<mainVars, extractVars, assetVars, endpointVars, renderVars,
                   sheetVars, gridVars, nameVars, loopVars, pairVars>>

InitMeta ==
    /\ MainIdle /\ ExtractIdle /\ AssetIdle
    /\ EndpointIdle /\ RenderIdle /\ SheetsIdle /\ GridIdle
    /\ NamesIdle /\ LoopIdle /\ PairIdle
    /\ mfile \in ProjectFiles
    /\ mpc = "index"
    /\ mres = [kind |-> "none"]
    /\ mstatus = PROCESSING

NextMeta ==
    \/ build_index
    \/ find_sources
    \/ meta_task_except

SpecMeta == InitMeta /\ [][NextMeta]_vars

\* C26: reading the project metadata never fails the run: whatever the
\* state of the project file (absent, unreadable, not valid JSON, valid
\* JSON that is not an object, object without metadata or title block),
\* _read_project_metadata returns a result whose unavailable fields are
\* absent or None, and the run goes on to the render stages.
C26_MetadataNeverFailsRun ==
    mres.kind # "none" =>
        /\ mres.kind = "returned"
        /\ mpc \in {"built", "stages"}
        /\ mstatus # FAILED
        /\ \A k \in DOMAIN mres.value \ {"source"} :
              mres.value[k] \in {None, "of title block", "of metadata"}

====
